---- MODULE Spec2Model ----
(***************************************************************************)
(* Markdown <-> HTML conversion engine with its embedded HTML sanitizer    *)
(* (src/unnamed/part_007).  Strings are TLA+ strings; a character is a     *)
(* string of length 1.  Every regular expression of the source is written  *)
(* out as an operator that finds the match the JavaScript engine finds     *)
(* (leftmost, greedy or lazy as written, global replace left to right).    *)
(***************************************************************************)
EXTENDS Integers, Sequences, FiniteSets, TLC

VARIABLES
  \* --- a call of sanitizeHtml, and a second call on its result
  sanPc,        \* "idle" | "input" | "sanitized" | "resanitized"
  sanInput,     \* the argument html, built from fragments
  sanFragments, \* how many fragments sanInput is made of
  sanResult,    \* sanitizeHtml(sanInput): [html, removedCount]
  sanAgain,     \* sanitizeHtml(sanResult.html)
  \* --- a call of markdownToHtml, and htmlToMarkdown called on its result
  mdPc,         \* "idle" | "input" | "scan" | "done" | "back"
  md,           \* the locals of markdownToHtml and its loop index
  mdResult,     \* the string markdownToHtml returns
  mdBack,       \* htmlToMarkdown(mdResult)
  \* --- a call of mdToHtml.convert or htmlToMd.convert
  convPc,       \* "idle" | "input" | "loop" | "done"
  convInput,    \* the argument input: [converter, files, options]
  conv,         \* the locals of convert and its loop index
  convProgress, \* what onProgress has been called with, in order
  convResult,   \* the ConversionResult the call resolves to
  \* --- a call of htmlToMarkdown
  h2mPc,        \* "idle" | "input" | "done"
  h2mDoc,       \* what the argument html is made of
  h2mResult,    \* the string htmlToMarkdown returns
  \* --- a call of isSafeUrl
  urlPc,        \* "idle" | "input" | "done"
  urlInput,     \* the argument url, built from pieces
  urlPieces,    \* how many pieces url is made of
  urlSafe       \* what isSafeUrl returns

sanVars == << sanPc, sanInput, sanFragments, sanResult, sanAgain >>
mdVars == << mdPc, md, mdResult, mdBack >>
convVars == << convPc, convInput, conv, convProgress, convResult >>
h2mVars == << h2mPc, h2mDoc, h2mResult >>
urlVars == << urlPc, urlInput, urlPieces, urlSafe >>
vars ==
  << sanPc, sanInput, sanFragments, sanResult, sanAgain, mdPc, md, mdResult,
     mdBack, convPc, convInput, conv, convProgress, convResult,
     h2mPc, h2mDoc, h2mResult, urlPc, urlInput,
     urlPieces, urlSafe >>

\* ------------------------------------------------------------------------
\* Characters and character classes
\* ------------------------------------------------------------------------

Ch(s, i) == SubSeq(s, i, i)

CharsOf(s) == {Ch(s, i) : i \in 1..Len(s)}

LowerChars == "abcdefghijklmnopqrstuvwxyz"
UpperChars == "ABCDEFGHIJKLMNOPQRSTUVWXYZ"
DigitChars == "0123456789"
\* The grave accent (code 96) cannot be written inside a TLA+ string: the
\* model writes it as the character of code 127, which no input and no
\* pattern of the program uses, here and in every pattern below.
Backtick == ""
\* printable ASCII, code 32 first
AsciiChars == " !\"#$%&'()*+,-./0123456789:;<=>?@ABCDEFGHIJKLMNOPQRSTUVWXYZ[\\]^_abcdefghijklmnopqrstuvwxyz{|}~"

Letter == CharsOf(LowerChars) \cup CharsOf(UpperChars)
Digit == CharsOf(DigitChars)
AlNum == Letter \cup Digit
AlNumDash == AlNum \cup {"-"}
HexDigit == Digit \cup CharsOf("abcdefABCDEF")
\* \s of the regular expressions, and what String.prototype.trim strips
Space == {" ", "\t", "\n", "\r", "\f"}

LowerOf == [c \in CharsOf(UpperChars) |->
              Ch(LowerChars, CHOOSE i \in 1..26 : Ch(UpperChars, i) = c)]

ToLowerCh(c) == IF c \in DOMAIN LowerOf THEN LowerOf[c] ELSE c

\* The least element of a non-empty set of integers
Least(S) == CHOOSE x \in S : \A y \in S : x <= y

\* The first index of a set of indices, 0 if there is none: where a regular
\* expression finds its leftmost match among the places it matches at.
First(S) == IF S = {} THEN 0 ELSE Least(S)

\* The last index of a set of indices, 0 if there is none
Last(S) == IF S = {} THEN 0 ELSE CHOOSE x \in S : \A y \in S : y <= x

\* TLC hands an operator its arguments unevaluated; Now(v, e) is e with v
\* evaluated first, so that a long chain of passes is computed pass by pass.
Now(v, e) == IF v = v THEN e ELSE e

RECURSIVE toLowerCase(_)
toLowerCase(s) ==
  IF \A i \in 1..Len(s) : Ch(s, i) \notin DOMAIN LowerOf THEN s
  ELSE IF Len(s) = 1 THEN ToLowerCh(s)
  ELSE LET h == Len(s) \div 2
       IN toLowerCase(SubSeq(s, 1, h)) \o toLowerCase(SubSeq(s, h + 1, Len(s)))

\* ------------------------------------------------------------------------
\* String primitives (String.prototype.*)
\* ------------------------------------------------------------------------

\* s.startsWith(p, i-1), 1-based
StartsWithAt(s, i, p) ==
  /\ i >= 1
  /\ i + Len(p) - 1 <= Len(s)
  /\ SubSeq(s, i, i + Len(p) - 1) = p

startsWith(s, p) == StartsWithAt(s, 1, p)

endsWith(s, p) == Len(p) <= Len(s) /\ StartsWithAt(s, Len(s) - Len(p) + 1, p)

\* s.indexOf(p, i-1) + 1: the first index >= i where p occurs, 0 if none
IndexFrom(s, p, i) ==
  First({j \in i..(Len(s) - Len(p) + 1) : StartsWithAt(s, j, p)})

includes(s, p) == IndexFrom(s, p, 1) > 0

\* s.lastIndexOf(p) + 1, 0 if none
lastIndexOf(s, p) ==
  Last({j \in 1..(Len(s) - Len(p) + 1) : StartsWithAt(s, j, p)})

\* the first index >= i whose character is not in set S (Len(s)+1 if none)
SkipChars(s, i, S) ==
  IF \A k \in i..Len(s) : Ch(s, k) \in S
  THEN (IF i > Len(s) THEN i ELSE Len(s) + 1)
  ELSE Least({k \in i..Len(s) : Ch(s, k) \notin S})

\* the last index <= i whose character is not in set S (0 if none)
SkipCharsBack(s, i, S) == Last({k \in 1..i : Ch(s, k) \notin S})

\* SubSeq(s, a, b) is "" when a > b
trim(s) == SubSeq(s, SkipChars(s, 1, Space), SkipCharsBack(s, Len(s), Space))

\* s.replace(/from/g, to) for a literal pattern
RECURSIVE ReplaceLitFrom(_, _, _, _)

ReplaceLitAt(s, from, to, i, j) ==
  IF j = 0 THEN SubSeq(s, i, Len(s))
  ELSE SubSeq(s, i, j - 1) \o to \o ReplaceLitFrom(s, from, to, j + Len(from))

ReplaceLitFrom(s, from, to, i) ==
  ReplaceLitAt(s, from, to, i, IndexFrom(s, from, i))

ReplaceLit(s, from, to) == ReplaceLitFrom(s, from, to, 1)

\* array.join(sep)
RECURSIVE join(_, _)
join(arr, sep) ==
  IF Len(arr) = 0 THEN ""
  ELSE IF Len(arr) = 1 THEN arr[1]
  ELSE arr[1] \o sep \o join(Tail(arr), sep)

DigitValue(c) == (CHOOSE k \in 1..10 : Ch(DigitChars, k) = c) - 1

\* parseInt(digits, 10) on a string of decimal digits
RECURSIVE parseInt10(_)
parseInt10(s) ==
  IF s = "" THEN 0
  ELSE parseInt10(SubSeq(s, 1, Len(s) - 1)) * 10 + DigitValue(Ch(s, Len(s)))

HexValue(c) ==
  IF c \in Digit THEN DigitValue(c)
  ELSE (CHOOSE k \in 1..6 : Ch("abcdef", k) = ToLowerCh(c)) + 9

\* parseInt(digits, 16) on a string of hexadecimal digits
RECURSIVE parseInt16(_)
parseInt16(s) ==
  IF s = "" THEN 0
  ELSE parseInt16(SubSeq(s, 1, Len(s) - 1)) * 16 + HexValue(Ch(s, Len(s)))

\* String(n) for a natural number
RECURSIVE NumToString(_)
NumToString(n) ==
  IF n < 10 THEN Ch(DigitChars, n + 1)
  ELSE NumToString(n \div 10) \o Ch(DigitChars, (n % 10) + 1)

\* String.fromCharCode(n).  Defined on tab, line feed, carriage return and
\* printable ASCII; every other code unit is outside the alphabet of the
\* model and is written as the one character "\\" stands for here.
fromCharCode(n) ==
  LET u == n % 65536
  IN IF u >= 32 /\ u <= 126 THEN Ch(AsciiChars, u - 31)
     ELSE IF u = 9 THEN "\t"
     ELSE IF u = 10 THEN "\n"
     ELSE IF u = 13 THEN "\r"
     ELSE "\\"

\* ------------------------------------------------------------------------
\* escapeHtml / unescapeHtml
\* ------------------------------------------------------------------------

escapeHtml(text) ==
  ReplaceLit(ReplaceLit(ReplaceLit(ReplaceLit(ReplaceLit(text,
    "&", "&amp;"), "<", "&lt;"), ">", "&gt;"), "\"", "&quot;"), "'", "&#39;")

\* prefix([digits]+); matched at i, e the end of the maximal run of digits
\* after the prefix: the index of its ";", 0 if it does not match
EntityEnd(s, i, prefix, e) ==
  IF /\ StartsWithAt(s, i, prefix)
     /\ e > i + Len(prefix) /\ e <= Len(s) /\ Ch(s, e) = ";"
  THEN e ELSE 0

\* /&#(\d+);/ matched at i: the index of its ";", 0 if it does not match
DecEntityEnd(s, i) == EntityEnd(s, i, "&#", SkipChars(s, i + 2, Digit))

RECURSIVE UnescapeDecFrom(_, _)

UnescapeDecAt(s, i, j, e) ==
  IF j = 0 THEN SubSeq(s, i, Len(s))
  ELSE SubSeq(s, i, j - 1)
         \o fromCharCode(parseInt10(SubSeq(s, j + 2, e - 1)))
         \o UnescapeDecFrom(s, e + 1)

\* the first entity at or after i, 0 if there is none
FirstDecEntity(s, i) == First({k \in i..Len(s) : DecEntityEnd(s, k) > 0})

\* .replace(/&#(\d+);/g, (_, code) => String.fromCharCode(parseInt(code, 10)))
UnescapeDecFrom(s, i) ==
  UnescapeDecAt(s, i, FirstDecEntity(s, i),
                SkipChars(s, FirstDecEntity(s, i) + 2, Digit))

\* /&#x([0-9a-fA-F]+);/ matched at i: the index of its ";", 0 if no match
HexEntityEnd(s, i) == EntityEnd(s, i, "&#x", SkipChars(s, i + 3, HexDigit))

RECURSIVE UnescapeHexFrom(_, _)

UnescapeHexAt(s, i, j, e) ==
  IF j = 0 THEN SubSeq(s, i, Len(s))
  ELSE SubSeq(s, i, j - 1)
         \o fromCharCode(parseInt16(SubSeq(s, j + 3, e - 1)))
         \o UnescapeHexFrom(s, e + 1)

FirstHexEntity(s, i) == First({k \in i..Len(s) : HexEntityEnd(s, k) > 0})

\* .replace(/&#x([0-9a-fA-F]+);/g, (_, code) => String.fromCharCode(parseInt(code, 16)))
UnescapeHexFrom(s, i) ==
  UnescapeHexAt(s, i, FirstHexEntity(s, i),
                SkipChars(s, FirstHexEntity(s, i) + 3, HexDigit))

unescapeHtml(text) ==
  UnescapeHexFrom(
    UnescapeDecFrom(
      ReplaceLit(ReplaceLit(ReplaceLit(ReplaceLit(ReplaceLit(ReplaceLit(text,
        "&lt;", "<"), "&gt;", ">"), "&amp;", "&"), "&quot;", "\""),
        "&#39;", "'"), "&nbsp;", " "),
      1),
    1)

\* ------------------------------------------------------------------------
\* HTML sanitizer
\* ------------------------------------------------------------------------

\* in the iteration order of the source's Set
DANGEROUS_TAGS ==
  << "script", "style", "iframe", "object", "embed", "form",
     "input", "button", "select", "textarea", "applet", "frame",
     "frameset", "meta", "link", "base", "noscript" >>

SAFE_TAGS ==
  { "html", "head", "body", "main", "article", "section", "nav", "aside",
    "header", "footer", "div", "span",
    "h1", "h2", "h3", "h4", "h5", "h6", "p", "br", "hr", "wbr",
    "b", "strong", "i", "em", "u", "s", "strike", "del", "ins", "mark",
    "small", "big", "sub", "sup", "code", "pre", "kbd", "samp", "var",
    "abbr", "cite", "dfn", "q", "blockquote", "address",
    "ul", "ol", "li", "dl", "dt", "dd",
    "table", "thead", "tbody", "tfoot", "tr", "th", "td", "caption",
    "colgroup", "col",
    "img", "figure", "figcaption", "picture", "source", "audio", "video",
    "track",
    "a",
    "details", "summary", "time", "data", "ruby", "rt", "rp", "bdi", "bdo" }

SAFE_ATTRIBUTES ==
  { "id", "class", "title", "lang", "dir", "tabindex", "role",
    "aria-label", "aria-labelledby", "aria-describedby", "aria-hidden",
    "href", "src", "alt", "width", "height", "loading", "decoding",
    "colspan", "rowspan", "scope", "headers",
    "start", "reversed", "type", "value",
    "open", "datetime", "cite", "download", "target", "rel",
    "controls", "autoplay", "loop", "muted", "poster", "preload" }

\* /^on[a-z]/i .test(name)
EVENT_HANDLER_PATTERN(name) ==
  /\ Len(name) >= 3
  /\ toLowerCase(SubSeq(name, 1, 2)) = "on"
  /\ Ch(name, 3) \in Letter

\* /^(javascript|data|vbscript|file):/i .test(url)
DANGEROUS_URL_PATTERN(url) ==
  \E scheme \in {"javascript", "data", "vbscript", "file"} :
    /\ Len(url) > Len(scheme)
    /\ toLowerCase(SubSeq(url, 1, Len(scheme) + 1)) = scheme \o ":"

\* the body of isSafeUrl after "const trimmed = url.trim().toLowerCase()"
IsSafeTrimmedUrl(trimmed) ==
  IF \/ trimmed = ""
     \/ startsWith(trimmed, "/")
     \/ startsWith(trimmed, "#")
     \/ startsWith(trimmed, "http://")
     \/ startsWith(trimmed, "https://")
     \/ startsWith(trimmed, "mailto:")
     \/ startsWith(trimmed, "tel:")
  THEN TRUE
  ELSE IF DANGEROUS_URL_PATTERN(trimmed) THEN FALSE
  ELSE IF ~includes(trimmed, ":") THEN TRUE
  ELSE FALSE

\* isSafeUrl without "url.trim().toLowerCase()":
\* C24_SafeUrlByPrefixAndColon does not hold of it
isSafeUrlAsWritten(url) == IsSafeTrimmedUrl(url)

isSafeUrl(url) == IsSafeTrimmedUrl(toLowerCase(trim(url)))

\* --- pass 1: new RegExp(`<${tag}[^>]*>[\\s\\S]*?</${tag}>`, 'gi') -----------
\* lo is the lower-cased subject.  The opening tag runs to the first ">" (no
\* shorter [^>]* is followed by ">"), the lazy body to the first closing tag.

\* the closing tag first found at c
PairedClose(tag, c) == IF c = 0 THEN 0 ELSE c + Len(tag) + 2

\* the ">" of the opening tag first found at g
PairedOpen(lo, tag, g) ==
  IF g = 0 THEN 0
  ELSE PairedClose(tag, IndexFrom(lo, "</" \o tag \o ">", g + 1))

PairedMatchEnd(lo, tag, i) ==
  IF ~StartsWithAt(lo, i, "<" \o tag) THEN 0
  ELSE PairedOpen(lo, tag, IndexFrom(lo, ">", i + Len(tag) + 1))

\* --- pass 1, second pattern: new RegExp(`<${tag}[^>]*/?>`, 'gi') ------------
BareMatchEnd(lo, tag, i) ==
  IF ~StartsWithAt(lo, i, "<" \o tag) THEN 0
  ELSE IndexFrom(lo, ">", i + Len(tag) + 1)

\* where the pattern (paired or bare) ends when matched at i, 0 if no match
DangerousMatchEnd(lo, tag, i, paired) ==
  IF paired THEN PairedMatchEnd(lo, tag, i) ELSE BareMatchEnd(lo, tag, i)

RECURSIVE RemoveMatchesFrom(_, _, _, _, _)

RemoveMatchAt(s, lo, tag, i, paired, j) ==
  IF j = 0 THEN SubSeq(s, i, Len(s))
  ELSE SubSeq(s, i, j - 1)
         \o RemoveMatchesFrom(s, lo, tag,
                              DangerousMatchEnd(lo, tag, j, paired) + 1, paired)

\* s.replace(pattern, '') from index i
RemoveMatchesFrom(s, lo, tag, i, paired) ==
  RemoveMatchAt(s, lo, tag, i, paired,
    First({k \in i..Len(s) : DangerousMatchEnd(lo, tag, k, paired) > 0}))

RemoveLowered(s, lo, tag, paired) ==
  IF includes(lo, "<" \o tag) THEN RemoveMatchesFrom(s, lo, tag, 1, paired) ELSE s

\* result.replace(pattern, '') with the paired pattern
RemovePaired(s, tag) == RemoveLowered(s, toLowerCase(s), tag, TRUE)

\* result.replace(selfClosingPattern, '')
RemoveBare(s, tag) == RemoveLowered(s, toLowerCase(s), tag, FALSE)

\* "if (result.length !== before.length) removedCount++", twice
CountRemoved(acc, r1, r2) ==
  [html |-> r2,
   removedCount |-> acc.removedCount
                      + (IF Len(r1) # Len(acc.html) THEN 1 ELSE 0)
                      + (IF Len(r2) # Len(r1) THEN 1 ELSE 0)]

RemoveBareAfter(acc, tag, r1) == CountRemoved(acc, r1, RemoveBare(r1, tag))

\* the body of the loop over DANGEROUS_TAGS, for one tag
RemoveDangerousTag(acc, tag) ==
  RemoveBareAfter(acc, tag, RemovePaired(acc.html, tag))

RECURSIVE RemoveDangerousTags(_, _)

RemoveDangerousRest(next, k) == Now(next, RemoveDangerousTags(next, k + 1))

RemoveDangerousTags(acc, k) ==
  IF k > Len(DANGEROUS_TAGS) THEN acc
  ELSE RemoveDangerousRest(RemoveDangerousTag(acc, DANGEROUS_TAGS[k]), k)

\* --- pass 2: /<([a-z][a-z0-9]*)\s+([^>]*?)\s*\/?>/gi ------------------------
\* The lazy attribute group stops at the shortest text after which only
\* \s*\/? remains before the ">": the text between the leading whitespace and
\* the ">", less one trailing "/" and the whitespace before it.
StripSlash(r) == IF endsWith(r, "/") THEN SubSeq(r, 1, Len(r) - 1) ELSE r

StripSpaceBack(r) == SubSeq(r, 1, SkipCharsBack(r, Len(r), Space))

StripTagTail(r) == StripSpaceBack(StripSlash(r))

NoMatch == [end |-> 0]

\* the groups of a pass 2 match at i: the name ends before n, the white
\* space before w, and g is the first ">" from w
AttrTagFound(s, i, n, w, g) ==
  IF w = n \/ g = 0 THEN NoMatch
  ELSE [end |-> g,
        match |-> SubSeq(s, i, g),
        tagName |-> SubSeq(s, i + 1, n - 1),
        attrs |-> StripTagTail(SubSeq(s, w, g - 1))]

AttrTagAfterSpace(s, i, n, w) == AttrTagFound(s, i, n, w, IndexFrom(s, ">", w))

AttrTagAfterName(s, i, n) == AttrTagAfterSpace(s, i, n, SkipChars(s, n, Space))

AttrTagMatch(s, i) ==
  IF ~(Ch(s, i) = "<" /\ i + 1 <= Len(s) /\ Ch(s, i + 1) \in Letter) THEN NoMatch
  ELSE AttrTagAfterName(s, i, SkipChars(s, i + 1, AlNum))

\* One attrPattern.exec(attrs) from index p:
\* /([a-z][a-z0-9\-]*)\s*(?:=\s*(?:"([^"]*)"|'([^']*)'|([^\s>]+)))?/gi

\* a quoted value opened at v and closed at c
AttrQuoted(attrs, name, v, c) ==
  [end |-> c, name |-> name, value |-> SubSeq(attrs, v + 1, c - 1)]

\* an unquoted value from v, its maximal run ending before u; when the run
\* is empty the optional group matches nothing and the match ends before w
AttrBare(attrs, name, w, v, u) ==
  IF u > v
  THEN [end |-> u - 1, name |-> name, value |-> SubSeq(attrs, v, u - 1)]
  ELSE [end |-> w - 1, name |-> name, value |-> ""]

\* the optional group: w is where "=" must stand, v where the value starts,
\* dq and sq the next '"' and "'" after v
AttrValue(attrs, name, w, v, dq, sq) ==
  IF w <= Len(attrs) /\ Ch(attrs, w) = "=" /\ v <= Len(attrs)
  THEN IF Ch(attrs, v) = "\"" /\ dq > 0 THEN AttrQuoted(attrs, name, v, dq)
       ELSE IF Ch(attrs, v) = "'" /\ sq > 0 THEN AttrQuoted(attrs, name, v, sq)
       ELSE AttrBare(attrs, name, w, v,
                     SkipChars(attrs, v, CharsOf(attrs) \ (Space \cup {">"})))
  ELSE [end |-> w - 1, name |-> name, value |-> ""]

AttrAfterEq(attrs, name, w, v) ==
  AttrValue(attrs, name, w, v,
            IndexFrom(attrs, "\"", v + 1), IndexFrom(attrs, "'", v + 1))

AttrAfterSpace(attrs, a, q, w) ==
  AttrAfterEq(attrs, SubSeq(attrs, a, q - 1), w, SkipChars(attrs, w + 1, Space))

\* the name starts at a, the first letter from p
AttrName(attrs, a) ==
  IF a > Len(attrs) THEN NoMatch
  ELSE AttrAfterSpace(attrs, a, SkipChars(attrs, a, AlNumDash),
                      SkipChars(attrs, SkipChars(attrs, a, AlNumDash), Space))

AttrMatch(attrs, p) ==
  AttrName(attrs, SkipChars(attrs, p, CharsOf(attrs) \ Letter))

\* the body of the while loop for the attribute attrName with value attrValue
FilterNamedAttr(acc, attrName, attrValue) ==
  IF EVENT_HANDLER_PATTERN(attrName)
  THEN [acc EXCEPT !.removedCount = @ + 1]
  ELSE IF /\ attrName \notin SAFE_ATTRIBUTES
          /\ ~startsWith(attrName, "aria-")
          /\ ~startsWith(attrName, "data-")
  THEN acc
  ELSE IF attrName \in {"href", "src"} /\ ~isSafeUrl(attrValue)
  THEN [acc EXCEPT !.removedCount = @ + 1]
  ELSE IF attrValue # ""
  THEN [acc EXCEPT !.cleanAttrs = Append(@,
          attrName \o "=\"" \o escapeHtml(unescapeHtml(attrValue)) \o "\"")]
  ELSE [acc EXCEPT !.cleanAttrs = Append(@, attrName)]

\* the body of the while loop for one match m of attrPattern
FilterAttr(acc, m) == FilterNamedAttr(acc, toLowerCase(m.name), m.value)

RECURSIVE FilterAttrs(_, _, _)

FilterAttrsRest(attrs, m, next) ==
  Now(next, FilterAttrs(attrs, m.end + 1, next))

FilterAttrsAt(attrs, acc, m) ==
  IF m.end = 0 THEN acc ELSE FilterAttrsRest(attrs, m, FilterAttr(acc, m))

\* the while loop over attrPattern.exec: the kept attributes and the count
FilterAttrs(attrs, p, acc) == FilterAttrsAt(attrs, acc, AttrMatch(attrs, p))

\* `<${tagName}${attrsStr}${isSelfClosing ? ' /' : ''}>` for the filtered
\* attributes f
CleanedTag(m, f) ==
  [text |-> "<" \o m.tagName
              \o (IF Len(f.cleanAttrs) > 0
                  THEN " " \o join(f.cleanAttrs, " ") ELSE "")
              \o (IF endsWith(m.match, "/>") THEN " />" ELSE ">"),
   removedCount |-> f.removedCount]

\* the replace callback of pass 2 on one match
CleanTag(m) ==
  IF m.attrs = "" THEN [text |-> m.match, removedCount |-> 0]
  ELSE CleanedTag(m, FilterAttrs(m.attrs, 1,
                                 [cleanAttrs |-> << >>, removedCount |-> 0]))

RECURSIVE CleanTagsFrom(_, _)

\* the text before the match at j, the cleaned tag c and the rest
CleanTagJoined(s, i, j, c, rest) ==
  [html |-> SubSeq(s, i, j - 1) \o c.text \o rest.html,
   removedCount |-> c.removedCount + rest.removedCount]

CleanTagReplaced(s, i, j, m) ==
  CleanTagJoined(s, i, j, CleanTag(m), CleanTagsFrom(s, m.end + 1))

CleanTagAt(s, i, j) ==
  IF j = 0 THEN [html |-> SubSeq(s, i, Len(s)), removedCount |-> 0]
  ELSE CleanTagReplaced(s, i, j, AttrTagMatch(s, j))

\* result.replace(/<([a-z][a-z0-9]*)\s+([^>]*?)\s*\/?>/gi, callback), from i
CleanTagsFrom(s, i) ==
  CleanTagAt(s, i, First({k \in i..Len(s) : AttrTagMatch(s, k).end > 0}))

\* --- pass 3: /<\/?([a-z][a-z0-9]*)[^>]*>/gi ---------------------------------

\* the name runs from a to n - 1, g is the first ">" from n
AnyTagFound(s, a, n, g) ==
  IF a > Len(s) \/ Ch(s, a) \notin Letter \/ g = 0 THEN NoMatch
  ELSE [end |-> g, tagName |-> SubSeq(s, a, n - 1)]

AnyTagAfterName(s, a, n) == AnyTagFound(s, a, n, IndexFrom(s, ">", n))

AnyTagName(s, a) == AnyTagAfterName(s, a, SkipChars(s, a, AlNum))

AnyTagMatch(s, i) ==
  IF Ch(s, i) # "<" THEN NoMatch
  ELSE AnyTagName(s, IF i + 1 <= Len(s) /\ Ch(s, i + 1) = "/"
                     THEN i + 2 ELSE i + 1)

RECURSIVE StripUnsafeTagsFrom(_, _)

\* "if (SAFE_TAGS.has(tagName.toLowerCase())) return match; removedCount++;
\* return ''" for the match m at j, and the rest
StripUnsafeJoined(s, i, j, m, rest) ==
  IF toLowerCase(m.tagName) \in SAFE_TAGS
  THEN [html |-> SubSeq(s, i, m.end) \o rest.html,
        removedCount |-> rest.removedCount]
  ELSE [html |-> SubSeq(s, i, j - 1) \o rest.html,
        removedCount |-> rest.removedCount + 1]

StripUnsafeReplaced(s, i, j, m) ==
  StripUnsafeJoined(s, i, j, m, StripUnsafeTagsFrom(s, m.end + 1))

StripUnsafeAt(s, i, j) ==
  IF j = 0 THEN [html |-> SubSeq(s, i, Len(s)), removedCount |-> 0]
  ELSE StripUnsafeReplaced(s, i, j, AnyTagMatch(s, j))

\* result.replace(/<\/?([a-z][a-z0-9]*)[^>]*>/gi, callback), from i
StripUnsafeTagsFrom(s, i) ==
  StripUnsafeAt(s, i, First({k \in i..Len(s) : AnyTagMatch(s, k).end > 0}))

\* the three passes p1, p2, p3: the html of the last, the counts of all
SumPasses(p1, p2, p3) ==
  [html |-> p3.html,
   removedCount |-> p1.removedCount + p2.removedCount + p3.removedCount]

Pass3(p1, p2) == SumPasses(p1, p2, Now(p2, StripUnsafeTagsFrom(p2.html, 1)))

Pass2(p1) == Pass3(p1, Now(p1, CleanTagsFrom(p1.html, 1)))

sanitizeHtml(html) ==
  Pass2(RemoveDangerousTags([html |-> html, removedCount |-> 0], 1))

\* ------------------------------------------------------------------------
\* Markdown inline formatter (parseInline)
\* ------------------------------------------------------------------------

Delim(open, stop, close, notFirst, pre, post) ==
  [open |-> open, stop |-> stop, close |-> close, notFirst |-> notFirst,
   pre |-> pre, post |-> post]

\* ([^stop]+)close with the capture starting at a and its maximal run of
\* non-stop characters ending before e: the index of the last character of
\* the match, 0 if no match
DelimEnd(s, d, a, e) ==
  IF e > a /\ Ch(s, a) \notin d.notFirst /\ StartsWithAt(s, e, d.close)
  THEN e + Len(d.close) - 1 ELSE 0

\* open([^stop]+)close matched at j, the first captured character not in
\* notFirst: the index of the last character of the match, 0 if no match.
\* The run of non-stop characters is maximal, so close must follow it.
DelimMatchEnd(s, j, d) ==
  IF ~StartsWithAt(s, j, d.open) THEN 0
  ELSE DelimEnd(s, d, j + Len(d.open),
                SkipChars(s, j + Len(d.open), CharsOf(s) \ {d.stop}))

RECURSIVE ReplaceDelimFrom(_, _, _)

\* the match at j..e replaced, and the rest of s after it
DelimReplaced(s, i, d, j, e) ==
  SubSeq(s, i, j - 1)
    \o d.pre \o SubSeq(s, j + Len(d.open), e - Len(d.close)) \o d.post
    \o ReplaceDelimFrom(s, e + 1, d)

ReplaceDelimAt(s, i, d, j) ==
  IF j = 0 THEN SubSeq(s, i, Len(s))
  ELSE DelimReplaced(s, i, d, j, DelimMatchEnd(s, j, d))

\* s.replace(/open([^stop]+)close/g, pre + '$1' + post), from index i
ReplaceDelimFrom(s, i, d) ==
  ReplaceDelimAt(s, i, d, First({k \in i..Len(s) : DelimMatchEnd(s, k, d) > 0}))

ReplaceDelim(s, d) == ReplaceDelimFrom(s, 1, d)

\* /`([^`]+)`/g -> <code>$1</code>
CodeSpan == Delim(Backtick, Backtick, Backtick, {}, "<code>", "</code>")

\* the bold and italic replacements, in the order of the source
EmphasisRules ==
  << Delim("***", "*", "***", {}, "<strong><em>", "</em></strong>"),
     Delim("___", "_", "___", {}, "<strong><em>", "</em></strong>"),
     Delim("**", "*", "**", {}, "<strong>", "</strong>"),
     Delim("__", "_", "__", {}, "<strong>", "</strong>"),
     Delim("*", "*", "*", {}, "<em>", "</em>"),
     Delim("_", "_", "_", Space \cup {"_"}, "<em>", "</em>") >>

\* /~~([^~]+)~~/g -> <del>$1</del>
Strikethrough == Delim("~~", "~", "~~", {}, "<del>", "</del>")

RECURSIVE ReplaceEmphasis(_, _)

EmphasisRest(next, k) == Now(next, ReplaceEmphasis(next, k + 1))

ReplaceEmphasis(s, k) ==
  IF k > Len(EmphasisRules) THEN s
  ELSE EmphasisRest(ReplaceDelim(s, EmphasisRules[k]), k)

\* the groups of a link or image match: text from a to b - 1, url from b + 2
\* to u - 1, the match ending at e
LinkFound(s, a, b, u, e, title) ==
  [end |-> e, text |-> SubSeq(s, a, b - 1),
   url |-> SubSeq(s, b + 2, u - 1), title |-> title]

\* (?:\s+"([^"]*)")?\) after a url that ends before u: w is the first
\* character after the white space, q the next '"' after w
LinkTitle(s, a, b, u, w, q) ==
  IF /\ w <= Len(s) /\ Ch(s, w) = "\""
     /\ q > 0 /\ q + 1 <= Len(s) /\ Ch(s, q + 1) = ")"
  THEN LinkFound(s, a, b, u, q + 1, SubSeq(s, w + 1, q - 1))
  ELSE NoMatch

LinkAfterSpace(s, a, b, u, w) ==
  LinkTitle(s, a, b, u, w, IndexFrom(s, "\"", w + 1))

\* ([^)\s]+) from b + 2, its maximal run ending before u
LinkUrl(s, a, b, u) ==
  IF u = b + 2 \/ u > Len(s) THEN NoMatch
  ELSE IF Ch(s, u) = ")" THEN LinkFound(s, a, b, u, u, "")
  ELSE LinkAfterSpace(s, a, b, u, SkipChars(s, u, Space))

\* ([^\]]{min,})\]\( from a, b the first "]" at or after a
LinkText(s, a, b, min) ==
  IF b = 0 \/ b - a < min \/ ~StartsWithAt(s, b, "](") THEN NoMatch
  ELSE LinkUrl(s, a, b, SkipChars(s, b + 2, CharsOf(s) \ (Space \cup {")"})))

\* open([^\]]{min,})\]\(([^)\s]+)(?:\s+"([^"]*)")?\) matched at j, where open
\* is "![" with min 0 (images) or "[" with min 1 (links)
LinkMatch(s, j, open, min) ==
  IF ~StartsWithAt(s, j, open) THEN NoMatch
  ELSE LinkText(s, j + Len(open), IndexFrom(s, "]", j + Len(open)), min)

LinkOpen(image) == IF image THEN "![" ELSE "["

LinkMin(image) == IF image THEN 0 ELSE 1

LinkTitleAttr(m) ==
  IF m.title # "" THEN " title=\"" \o m.title \o "\"" ELSE ""

\* the replace callbacks of the image and link patterns
LinkHtml(m, image) ==
  IF image
  THEN "<img src=\"" \o m.url \o "\" alt=\"" \o m.text \o "\""
         \o LinkTitleAttr(m) \o " />"
  ELSE "<a href=\"" \o m.url \o "\"" \o LinkTitleAttr(m) \o ">"
         \o m.text \o "</a>"

RECURSIVE ReplaceLinksFrom(_, _, _)

LinkReplaced(s, i, image, j, m) ==
  SubSeq(s, i, j - 1) \o LinkHtml(m, image)
    \o ReplaceLinksFrom(s, m.end + 1, image)

ReplaceLinkAt(s, i, image, j) ==
  IF j = 0 THEN SubSeq(s, i, Len(s))
  ELSE LinkReplaced(s, i, image, j,
                    LinkMatch(s, j, LinkOpen(image), LinkMin(image)))

\* html.replace(/!\[...\]\(...\)/g, callback) and
\* html.replace(/\[...\]\(...\)/g, callback), from index i
ReplaceLinksFrom(s, i, image) ==
  ReplaceLinkAt(s, i, image,
    First({k \in i..Len(s) :
             LinkMatch(s, k, LinkOpen(image), LinkMin(image)).end > 0}))

\* ([^&]+)&gt; with the capture's maximal run from r ending before e: e,
\* the index of the "&" of "&gt;", 0 if no match
AutoLinkTail(s, r, e) ==
  IF e > r /\ StartsWithAt(s, e, "&gt;") THEN e ELSE 0

UrlAutoLinkRest(s, p) ==
  IF ~StartsWithAt(s, p, "://") THEN 0
  ELSE AutoLinkTail(s, p + 3, SkipChars(s, p + 3, CharsOf(s) \ {"&"}))

\* /&lt;(https?:\/\/[^&]+)&gt;/ matched at j: the index of the "&" of its
\* "&gt;", 0 if no match
UrlAutoLinkEnd(s, j) ==
  IF ~StartsWithAt(s, j, "&lt;http") THEN 0
  ELSE UrlAutoLinkRest(s, IF StartsWithAt(s, j + 8, "s") THEN j + 9 ELSE j + 8)

MailWord(s) == CharsOf(s) \ (Space \cup {"@"})

\* \.[^&]+&gt; with the dot at d
MailTailEnd(s, d) ==
  AutoLinkTail(s, d + 1, SkipChars(s, d + 1, CharsOf(s) \ {"&"}))

\* the dots of the domain run b..r-1 that [^@\s]+ can stop before
MailDots(s, b, r) ==
  {d \in (b + 1)..(r - 1) : Ch(s, d) = "." /\ MailTailEnd(s, d) > 0}

\* the second [^@\s]+ is greedy: of the dots it can stop before, the last
\* one after which [^&]+&gt; matches is taken
MailLastDot(s, D) ==
  IF D = {} THEN 0 ELSE MailTailEnd(s, CHOOSE d \in D : \A x \in D : x <= d)

MailDomain(s, j, at) ==
  IF at = j + 4 \/ at > Len(s) \/ Ch(s, at) # "@" THEN 0
  ELSE MailLastDot(s, MailDots(s, at + 1, SkipChars(s, at + 1, MailWord(s))))

\* /&lt;([^@\s]+@[^@\s]+\.[^&]+)&gt;/ matched at j: the index of the "&" of
\* its "&gt;", 0 if no match
MailAutoLinkEnd(s, j) ==
  IF ~StartsWithAt(s, j, "&lt;") THEN 0
  ELSE MailDomain(s, j, SkipChars(s, j + 4, MailWord(s)))

AutoLinkEnd(s, j, mail) ==
  IF mail THEN MailAutoLinkEnd(s, j) ELSE UrlAutoLinkEnd(s, j)

AutoLinkAnchor(g, mail) ==
  "<a href=\"" \o (IF mail THEN "mailto:" ELSE "") \o g \o "\">" \o g \o "</a>"

RECURSIVE ReplaceAutoLinksFrom(_, _, _)

AutoLinkReplaced(s, i, mail, j, e) ==
  SubSeq(s, i, j - 1) \o AutoLinkAnchor(SubSeq(s, j + 4, e - 1), mail)
    \o ReplaceAutoLinksFrom(s, e + 4, mail)

ReplaceAutoLinkAt(s, i, mail, j) ==
  IF j = 0 THEN SubSeq(s, i, Len(s))
  ELSE AutoLinkReplaced(s, i, mail, j, AutoLinkEnd(s, j, mail))

\* .replace(pattern, '<a href="$1">$1</a>') and
\* .replace(pattern, '<a href="mailto:$1">$1</a>')
ReplaceAutoLinksFrom(s, i, mail) ==
  ReplaceAutoLinkAt(s, i, mail,
    First({k \in i..Len(s) : AutoLinkEnd(s, k, mail) > 0}))

LineTerminator == {"\n", "\r"}

RECURSIVE ReplaceLineBreaksFrom(_, _)

ReplaceLineBreakAt(s, i, j) ==
  IF j = 0 THEN SubSeq(s, i, Len(s))
  ELSE SubSeq(s, i, j - 1) \o "<br />" \o ReplaceLineBreaksFrom(s, j + 2)

\* .replace(/  $/gm, '<br />')
ReplaceLineBreaksFrom(s, i) ==
  ReplaceLineBreakAt(s, i,
    First({k \in i..(Len(s) - 1) :
             /\ StartsWithAt(s, k, "  ")
             /\ (k + 2 > Len(s) \/ Ch(s, k + 2) \in LineTerminator)}))

ReplaceStrikethrough(s, gfm) ==
  IF gfm THEN ReplaceDelim(s, Strikethrough) ELSE s

parseInline(text, gfm) ==
  ReplaceLineBreaksFrom(
    ReplaceStrikethrough(
      ReplaceEmphasis(
        ReplaceAutoLinksFrom(
          ReplaceAutoLinksFrom(
            ReplaceLinksFrom(
              ReplaceLinksFrom(
                ReplaceDelim(escapeHtml(text), CodeSpan),
                1, TRUE),
              1, FALSE),
            1, FALSE),
          1, TRUE),
        1),
      gfm),
    1)

\* ------------------------------------------------------------------------
\* Markdown block parser (markdownToHtml)
\* ------------------------------------------------------------------------

RECURSIVE SplitFrom(_, _, _)

SplitAt(s, sep, i, j) ==
  IF j = 0 THEN << SubSeq(s, i, Len(s)) >>
  ELSE << SubSeq(s, i, j - 1) >> \o SplitFrom(s, sep, j + Len(sep))

SplitFrom(s, sep, i) == SplitAt(s, sep, i, IndexFrom(s, sep, i))

\* s.split(sep) for a non-empty separator
split(s, sep) == SplitFrom(s, sep, 1)

RECURSIVE StripSpaceFrom(_, _)

StripSpaceAt(s, i, j) ==
  IF j = 0 THEN SubSeq(s, i, Len(s))
  ELSE SubSeq(s, i, j - 1) \o StripSpaceFrom(s, j + 1)

\* s.replace(/\s/g, '')
StripSpaceFrom(s, i) ==
  StripSpaceAt(s, i, First({k \in i..Len(s) : Ch(s, k) \in Space}))

\* /^[S]+$/ .test(s)
AllIn(s, S) == s # "" /\ \A k \in 1..Len(s) : Ch(s, k) \in S

\* "\s+(.{min,})$" matched from index a of s: the index where the group
\* starts, 0 if no match.  \s+ is greedy and gives characters back until the
\* rest of the line holds no line terminator ("." does not match one).
RestAfterSpace(s, a, min) ==
  Last({p \in (a + 1)..SkipChars(s, a, Space) :
          /\ Len(s) - p + 1 >= min
          /\ \A k \in p..Len(s) : Ch(s, k) \notin LineTerminator})

\* the scan state: the locals of markdownToHtml, the loop index i (from 1)
\* and the rule that handled the last line
InitScan(lines, gfm) ==
  [lines |-> lines, gfm |-> gfm, i |-> 1, rule |-> "none",
   output |-> << >>,
   inCodeBlock |-> FALSE, codeBlockLang |-> "", codeBlockContent |-> << >>,
   inList |-> FALSE, listType |-> "ul",
   inBlockquote |-> FALSE, blockquoteContent |-> << >>,
   inTable |-> FALSE, tableRows |-> << >>, tableAlignments |-> << >>]

\* output.push(html)
Push(st, html) == [st EXCEPT !.output = Append(@, html)]

\* the alignment of a column that has none (null in the source)
null == "null"

\* the style attribute of the cells of column i
CellAlign(alignments, i) ==
  IF i <= Len(alignments) /\ alignments[i] # null
  THEN " style=\"text-align: " \o alignments[i] \o "\"" ELSE ""

\* one <th> or <td> line per cell of a row, from cell i
RECURSIVE RenderCells(_, _, _, _, _)
RenderCells(row, alignments, tag, gfm, i) ==
  IF i > Len(row) THEN ""
  ELSE "<" \o tag \o CellAlign(alignments, i) \o ">"
         \o parseInline(trim(row[i]), gfm)
         \o "</" \o tag \o ">\n" \o RenderCells(row, alignments, tag, gfm, i + 1)

\* the body rows, from row r
RECURSIVE RenderRows(_, _, _, _)
RenderRows(rows, alignments, gfm, r) ==
  IF r > Len(rows) THEN ""
  ELSE "<tr>\n" \o RenderCells(rows[r], alignments, "td", gfm, 1) \o "</tr>\n"
         \o RenderRows(rows, alignments, gfm, r + 1)

renderTable(rows, alignments, gfm) ==
  IF Len(rows) = 0 THEN ""
  ELSE "<table>\n<thead>\n<tr>\n"
         \o RenderCells(rows[1], alignments, "th", gfm, 1)
         \o "</tr>\n</thead>\n"
         \o (IF Len(rows) > 1
             THEN "<tbody>\n" \o RenderRows(rows, alignments, gfm, 2) \o "</tbody>\n"
             ELSE "")
         \o "</table>"

\* CloseList without the closing tag:
\* C20_ListMarkupWellNested does not hold of it
CloseListSilently(st) == [st EXCEPT !.inList = FALSE]

CloseList(st) ==
  IF st.inList
  THEN [Push(st, "</" \o st.listType \o ">") EXCEPT !.inList = FALSE]
  ELSE st

CloseBlockquote(st) ==
  IF st.inBlockquote
  THEN [Push(st, "<blockquote>"
                   \o parseInline(join(st.blockquoteContent, "\n"), st.gfm)
                   \o "</blockquote>")
          EXCEPT !.blockquoteContent = << >>, !.inBlockquote = FALSE]
  ELSE st

CloseTable(st) ==
  IF st.inTable
  THEN [Push(st, renderTable(st.tableRows, st.tableAlignments, st.gfm))
          EXCEPT !.tableRows = << >>, !.tableAlignments = << >>, !.inTable = FALSE]
  ELSE st

closeBlocks(st) == CloseTable(CloseBlockquote(CloseList(st)))

LangClass(lang) ==
  IF lang # "" THEN " class=\"language-" \o lang \o "\"" ELSE ""

\* <pre><code ...>...</code></pre> of the collected code block
CodeBlockHtml(st) ==
  "<pre><code" \o LangClass(st.codeBlockLang) \o ">"
    \o escapeHtml(join(st.codeBlockContent, "\n")) \o "</code></pre>"

\* the body of "if (trimmed.startsWith('```'))"; closed is closeBlocks()
CodeFence(st, trimmed, closed) ==
  IF ~st.inCodeBlock
  THEN [closed EXCEPT !.inCodeBlock = TRUE,
                      !.codeBlockLang = trim(SubSeq(trimmed, 4, Len(trimmed))),
                      !.codeBlockContent = << >>]
  ELSE [Push(st, CodeBlockHtml(st)) EXCEPT !.inCodeBlock = FALSE, !.codeBlockLang = ""]

\* .filter((_, idx, arr) => ...): of the pieces, the first and the last are
\* dropped when empty and every other one is kept
KeepCells(arr) ==
  SubSeq(arr, IF arr[1] # "" THEN 1 ELSE 2,
              IF arr[Len(arr)] # "" THEN Len(arr) ELSE Len(arr) - 1)

TrimCells(arr) == [k \in 1..Len(arr) |-> trim(arr[k])]

\* trimmed.split('|').map(c => c.trim()).filter(...)
TableCells(trimmed) == KeepCells(TrimCells(split(trimmed, "|")))

\* -+:?$ from a, e the end of the maximal run of "-" from a
SeparatorEnd(c, a, e) ==
  e > a /\ (e = Len(c) + 1 \/ (e = Len(c) /\ Ch(c, e) = ":"))

SeparatorStart(c) == IF startsWith(c, ":") THEN 2 ELSE 1

\* /^:?-+:?$/ .test(c)
IsSeparatorCell(c) ==
  SeparatorEnd(c, SeparatorStart(c), SkipChars(c, SeparatorStart(c), {"-"}))

\* Alignment without its test for a colon at both ends:
\* C11_TableOfHeaderAlignmentBody does not hold of it
AlignmentByOneEnd(c) ==
  IF endsWith(c, ":") THEN "right"
  ELSE IF startsWith(c, ":") THEN "left"
  ELSE null

Alignment(c) ==
  IF startsWith(c, ":") /\ endsWith(c, ":") THEN "center"
  ELSE IF endsWith(c, ":") THEN "right"
  ELSE IF startsWith(c, ":") THEN "left"
  ELSE null

\* which branch of the table rule takes the line: "alignment", "row", or
\* "none" when the line falls through to the rules below
TableRule(st, cells) ==
  IF \A k \in 1..Len(cells) : IsSeparatorCell(cells[k])
  THEN IF Len(st.tableRows) = 1 THEN "alignment" ELSE "none"
  ELSE IF st.inTable \/ Len(st.tableRows) = 0 THEN "row" ELSE "none"

\* the groups of a header match: n hashes, the text from p
HeaderFound(trimmed, n, p) ==
  IF n < 1 \/ n > 6 \/ p = 0 THEN [level |-> 0]
  ELSE [level |-> n, text |-> SubSeq(trimmed, p, Len(trimmed))]

HeaderHashes(trimmed, n) ==
  HeaderFound(trimmed, n, RestAfterSpace(trimmed, n + 1, 1))

\* trimmed.match(/^(#{1,6})\s+(.+)$/): level 0 if no match
HeaderMatch(trimmed) == HeaderHashes(trimmed, SkipChars(trimmed, 1, {"#"}) - 1)

\* /^[-*_]{3,}$/ .test(s)
IsRule(s) == Len(s) >= 3 /\ AllIn(s, {"-", "*", "_"})

UlFound(trimmed, p) ==
  IF p = 0 THEN [start |-> 0]
  ELSE [start |-> p, text |-> SubSeq(trimmed, p, Len(trimmed))]

\* trimmed.match(/^[-*+]\s+(.*)$/): start 0 if no match
UlMatch(trimmed) ==
  IF trimmed # "" /\ Ch(trimmed, 1) \in {"-", "*", "+"}
  THEN UlFound(trimmed, RestAfterSpace(trimmed, 2, 0))
  ELSE [start |-> 0]

TaskFound(item, p) ==
  IF p = 0 THEN [start |-> 0]
  ELSE [start |-> p, mark |-> Ch(item, 2), text |-> SubSeq(item, p, Len(item))]

\* ulMatch[1].match(/^\[([ xX])\]\s+(.*)$/): start 0 if no match
TaskMatch(item) ==
  IF /\ Len(item) >= 3
     /\ Ch(item, 1) = "["
     /\ Ch(item, 2) \in {" ", "x", "X"}
     /\ Ch(item, 3) = "]"
  THEN TaskFound(item, RestAfterSpace(item, 4, 0))
  ELSE [start |-> 0]

OlFound(trimmed, d, p) ==
  IF p = 0 THEN [start |-> 0]
  ELSE [start |-> p, number |-> SubSeq(trimmed, 1, d - 1),
        text |-> SubSeq(trimmed, p, Len(trimmed))]

\* (\d+)\.\s+(.*)$ with the digits ending before d
OlDigits(trimmed, d) ==
  IF d = 1 \/ d > Len(trimmed) \/ Ch(trimmed, d) # "." THEN [start |-> 0]
  ELSE OlFound(trimmed, d, RestAfterSpace(trimmed, d + 1, 0))

\* trimmed.match(/^(\d+)\.\s+(.*)$/): start 0 if no match
OlMatch(trimmed) == OlDigits(trimmed, SkipChars(trimmed, 1, Digit))

\* "if (!inList || listType !== type) { closeBlocks(); ...; output.push(tag) }"
OpenList(st, closed, type, tag) ==
  IF ~st.inList \/ st.listType # type
  THEN Push([closed EXCEPT !.inList = TRUE, !.listType = type], tag)
  ELSE st

\* "if (gfm) { const taskMatch = ...; if (taskMatch) {"
IsTask(item, gfm) == gfm /\ TaskMatch(item).start > 0

\* const checked = taskMatch[1].toLowerCase() === 'x'
TaskBox(t) ==
  "<input type=\"checkbox\" disabled"
    \o (IF toLowerCase(t.mark) = "x" THEN " checked" ELSE "") \o " /> "

\* the <li> of an unordered item, a task item under gfm
UlItemHtml(item, gfm) ==
  "<li>"
    \o (IF IsTask(item, gfm) THEN TaskBox(TaskMatch(item)) ELSE "")
    \o parseInline(IF IsTask(item, gfm) THEN TaskMatch(item).text ELSE item, gfm)
    \o "</li>"

\* OlOpenTag without the start attribute: C10_OrderedListStart does not hold
\* of it
OlOpenTagPlain(start) == "<ol>"

\* start === 1 ? '<ol>' : `<ol start="${start}">`
OlOpenTag(start) ==
  IF start = 1 THEN "<ol>" ELSE "<ol start=\"" \o NumToString(start) \o "\">"

\* "continue", and the i++ of the loop
Continue(st, rule) == [st EXCEPT !.i = @ + 1, !.rule = rule]

\* the unordered list, ordered list, indented code and paragraph rules;
\* closed is closeBlocks() in the state st, ul and ol the two list matches
ListRules(st, line, trimmed, closed, ul, ol) ==
  IF ul.start > 0
  THEN Continue(Push(OpenList(st, closed, "ul", "<ul>"),
                     UlItemHtml(ul.text, st.gfm)),
                IF IsTask(ul.text, st.gfm) THEN "task" ELSE "ul")
  ELSE IF ol.start > 0
  THEN Continue(Push(OpenList(st, closed, "ol", OlOpenTag(parseInt10(ol.number))),
                     "<li>" \o parseInline(ol.text, st.gfm) \o "</li>"),
                "ol")
  ELSE IF startsWith(line, "    ") \/ startsWith(line, "\t")
  THEN Continue(Push(closed,
                     "<pre><code>"
                       \o escapeHtml(IF startsWith(line, "\t")
                                     THEN SubSeq(line, 2, Len(line))
                                     ELSE SubSeq(line, 5, Len(line)))
                       \o "</code></pre>"),
                "indented")
  ELSE Continue(Push(closed, "<p>" \o parseInline(trimmed, st.gfm) \o "</p>"),
                "paragraph")

\* which setext rule the next line selects: "setext1" for /^=+$/, "setext2"
\* for /^-+$/ when trimmed is not itself a rule, else "none"
SetextRule(trimmed, nextLine) ==
  IF AllIn(nextLine, {"="}) THEN "setext1"
  ELSE IF AllIn(nextLine, {"-"}) /\ ~IsRule(trimmed) THEN "setext2"
  ELSE "none"

\* the setext header (it skips the underline: i++), horizontal rule and
\* blockquote rules, then the rules below them
BlockRules(st, line, trimmed, closed, setext) ==
  IF setext # "none"
  THEN [Continue(Push(closed,
                      (IF setext = "setext1" THEN "<h1>" ELSE "<h2>")
                        \o parseInline(trimmed, st.gfm)
                        \o (IF setext = "setext1" THEN "</h1>" ELSE "</h2>")),
                 setext) EXCEPT !.i = @ + 1]
  ELSE IF IsRule(StripSpaceFrom(trimmed, 1))
  THEN Continue(Push(closed, "<hr />"), "hr")
  ELSE IF startsWith(trimmed, ">")
  THEN Continue([(IF ~st.inBlockquote
                  THEN [closed EXCEPT !.inBlockquote = TRUE] ELSE st)
                   EXCEPT !.blockquoteContent =
                            Append(@, trim(SubSeq(trimmed, 2, Len(trimmed))))],
                "blockquote")
  ELSE ListRules(st, line, trimmed, closed, UlMatch(trimmed), OlMatch(trimmed))

\* the header rule, h the header match, then the rules below it
HeaderRule(st, line, trimmed, closed, h) ==
  IF h.level > 0
  THEN Continue(Push(closed,
                     "<h" \o NumToString(h.level) \o ">"
                       \o parseInline(h.text, st.gfm)
                       \o "</h" \o NumToString(h.level) \o ">"),
                "header")
  ELSE BlockRules(st, line, trimmed, closed,
                  IF st.i + 1 <= Len(st.lines)
                  THEN SetextRule(trimmed, trim(st.lines[st.i + 1]))
                  ELSE "none")

\* the rules below the table rule, in the order of the source; closed is
\* closeBlocks() in the state st
ScanRules(st, line, trimmed, closed) ==
  HeaderRule(st, line, trimmed, closed, HeaderMatch(trimmed))

\* the table rule (gfm) and "if (inTable && !trimmed.includes('|'))
\* closeBlocks()"; cells are the cells of the line and tableRule says which
\* branch of the table rule applies.  closeBlocks() leaves no block open,
\* so calling it once more in the closed state gives the closed state.
ScanTable(st, line, trimmed, closed, cells, tableRule) ==
  IF tableRule = "alignment"
  THEN Continue([st EXCEPT !.tableAlignments =
                             [k \in 1..Len(cells) |-> Alignment(cells[k])],
                           !.inTable = TRUE],
                "alignment")
  ELSE IF tableRule = "row"
  THEN Continue([(IF ~st.inTable THEN closed ELSE st)
                   EXCEPT !.tableRows = Append(@, cells)],
                "row")
  ELSE ScanRules(IF st.inTable /\ ~includes(trimmed, "|") THEN closed ELSE st,
                 line, trimmed, closed)

\* the code fence, code block and empty line rules; closed is closeBlocks()
ScanTrimmed(st, line, trimmed, closed) ==
  IF startsWith(trimmed, Backtick \o Backtick \o Backtick)
  THEN Continue(CodeFence(st, trimmed, closed), "fence")
  ELSE IF st.inCodeBlock
  THEN Continue([st EXCEPT !.codeBlockContent = Append(@, line)], "code")
  ELSE IF trimmed = ""
  THEN Continue(closed, "blank")
  ELSE ScanTable(st, line, trimmed, closed, TableCells(trimmed),
                 IF st.gfm /\ includes(trimmed, "|")
                 THEN TableRule(st, TableCells(trimmed)) ELSE "none")

\* one iteration of "for (let i = 0; i < lines.length; i++)"
ScanLine(st) ==
  ScanTrimmed(st, st.lines[st.i], trim(st.lines[st.i]), closeBlocks(st))

RECURSIVE ScanFrom(_)

ScanRest(next) == Now(next, ScanFrom(next))

\* the iterations from st.i to the end of the lines
ScanFrom(st) == IF st.i > Len(st.lines) THEN st ELSE ScanRest(ScanLine(st))

\* FlushCodeBlock discarding the unterminated code block:
\* C19_FenceLinesRawInOneBlock does not hold of it
DiscardCodeBlock(closed) == closed

\* "if (inCodeBlock) output.push(...)" after the loop
FlushCodeBlock(closed) ==
  IF closed.inCodeBlock THEN Push(closed, CodeBlockHtml(closed)) ELSE closed

\* after the loop: close the open blocks, flush an unclosed code block
FinishScan(st) == FlushCodeBlock(closeBlocks(st))

markdownToHtml(markdown, gfm) ==
  join(FinishScan(ScanFrom(InitScan(split(markdown, "\n"), gfm))).output, "\n")

\* ------------------------------------------------------------------------
\* HTML to Markdown (htmlToMarkdown)
\* ------------------------------------------------------------------------
\* Every step of htmlToMarkdown is result.replace(pattern, replacement).
\* A pattern is a record whose kind says how it matches and what replaces
\* the match; lo is the lower-cased subject, which the patterns with the i
\* flag are matched against, and n counts the matches of the current
\* replace from 1.

\* the first of two matches that is one
OrElse(m1, m2) == IF m1.end > 0 THEN m1 ELSE m2

\* --- <name[^>]*>([\s\S]*?)<\/name> --------------------------------------
\* An alternative is an opening name with the names that may close it.  The
\* opening tag runs to the first ">", the lazy body to the first closing tag;
\* the match records the bounds of the body.
Tag(name) == [open |-> name, closes |-> {name}]

\* the name whose closing tag stands at c
ClosedBy(lo, alt, c) ==
  CHOOSE name \in alt.closes : StartsWithAt(lo, c, "</" \o name \o ">")

PairedTagClose(lo, alt, g, c) ==
  IF c = 0 THEN NoMatch
  ELSE [end |-> c + Len(ClosedBy(lo, alt, c)) + 2, from |-> g + 1, to |-> c - 1]

PairedTagOpen(lo, alt, g) ==
  IF g = 0 THEN NoMatch
  ELSE PairedTagClose(lo, alt, g,
         First({IndexFrom(lo, "</" \o name \o ">", g + 1) : name \in alt.closes}
                 \ {0}))

PairedTagMatch(lo, alt, j) ==
  IF ~StartsWithAt(lo, j, "<" \o alt.open) THEN NoMatch
  ELSE PairedTagOpen(lo, alt, IndexFrom(lo, ">", j + Len(alt.open) + 1))

\* the alternatives are tried in order, from the k-th
RECURSIVE AltMatch(_, _, _, _)
AltMatch(lo, alts, j, k) ==
  IF k > Len(alts) THEN NoMatch
  ELSE OrElse(PairedTagMatch(lo, alts[k], j), AltMatch(lo, alts, j, k + 1))

\* the first position from i where the alternatives match, 0 if none
FirstAlt(lo, alts, i) ==
  First({k \in i..Len(lo) : AltMatch(lo, alts, k, 1).end > 0})

RECURSIVE GroupsFrom(_, _, _, _)

GroupsAfter(s, lo, alts, m) ==
  << SubSeq(s, m.from, m.to) >> \o GroupsFrom(s, lo, alts, m.end + 1)

GroupsAt(s, lo, alts, j) ==
  IF j = 0 THEN << >> ELSE GroupsAfter(s, lo, alts, AltMatch(lo, alts, j, 1))

\* the bodies of all the matches of a pattern with the g flag, in order
GroupsFrom(s, lo, alts, i) == GroupsAt(s, lo, alts, FirstAlt(lo, alts, i))

Groups(s, alts) == GroupsFrom(s, toLowerCase(s), alts, 1)

\* s.match(pattern) without the g flag: whether it matches, and the body
FirstGroupAt(s, m) ==
  IF m.end = 0 THEN [found |-> FALSE, group |-> ""]
  ELSE [found |-> TRUE, group |-> SubSeq(s, m.from, m.to)]

FirstGroupIn(s, lo, alts, j) ==
  FirstGroupAt(s, IF j = 0 THEN NoMatch ELSE AltMatch(lo, alts, j, 1))

FirstGroup(s, alts) ==
  FirstGroupIn(s, toLowerCase(s), alts, FirstAlt(toLowerCase(s), alts, 1))

\* --- the table callback -------------------------------------------------
TrimAll(arr) == [k \in 1..Len(arr) |-> trim(arr[k])]

NonEmpty(arr) == Len(arr) > 0

\* /<t[dh][^>]*>([\s\S]*?)<\/t[dh]>/gi
CellAlts ==
  << [open |-> "td", closes |-> {"td", "th"}],
     [open |-> "th", closes |-> {"td", "th"}] >>

\* "if (theadMatch) { ...; if (headerCells.length > 0) rows.push(headerCells) }"
HeaderRows(thead) ==
  IF thead.found
  THEN SelectSeq(<< TrimAll(Groups(thead.group, << Tag("th") >>)) >>, NonEmpty)
  ELSE << >>

RowCells(trs) == [k \in 1..Len(trs) |-> TrimAll(Groups(trs[k], CellAlts))]

\* the rows pushed by bodyContent.replace(/<tr[^>]*>([\s\S]*?)<\/tr>/gi, ...)
BodyRows(bodyContent) ==
  SelectSeq(RowCells(Groups(bodyContent, << Tag("tr") >>)), NonEmpty)

\* const bodyContent = tbodyMatch ? tbodyMatch[1] : tableContent
BodyContent(tableContent, tbody) ==
  IF tbody.found THEN tbody.group ELSE tableContent

TableRows(tableContent) ==
  HeaderRows(FirstGroup(tableContent, << Tag("thead") >>))
    \o BodyRows(BodyContent(tableContent,
                            FirstGroup(tableContent, << Tag("tbody") >>)))

\* '| ' + row.map(c => c || ' ').join(' | ') + ' |\n'
RowLine(row) ==
  "| " \o join([k \in 1..Len(row) |-> IF row[k] = "" THEN " " ELSE row[k]], " | ")
    \o " |\n"

RECURSIVE RowLines(_, _)
RowLines(rows, r) ==
  IF r > Len(rows) THEN "" ELSE RowLine(rows[r]) \o RowLines(rows, r + 1)

\* Math.max(...rows.map(r => r.length))
ColCount(rows) == Last({Len(rows[r]) : r \in 1..Len(rows)})

TableMarkdown(rows) ==
  IF Len(rows) = 0 THEN ""
  ELSE "\n" \o RowLine(rows[1])
         \o "| " \o join([k \in 1..ColCount(rows) |-> "---"], " | ") \o " |\n"
         \o RowLines(rows, 2) \o "\n"

\* --- the blockquote callback --------------------------------------------
QuoteLines(lines) == [k \in 1..Len(lines) |-> "> " \o trim(lines[k])]

BlockquoteMarkdown(content) ==
  "\n" \o join(QuoteLines(split(trim(content), "\n")), "\n") \o "\n"

\* --- the code block pattern ---------------------------------------------
\* /<pre[^>]*><code(?:\s+class="language-([^"]*)")?[^>]*>([\s\S]*?)<\/code><\/pre>/gi
FenceMark == Backtick \o Backtick \o Backtick

CodeBlockClose(s, lang, g, c) ==
  IF c = 0 THEN NoMatch
  ELSE [end |-> c + 12,
        text |-> "\n" \o FenceMark \o lang \o "\n"
                   \o unescapeHtml(SubSeq(s, g + 1, c - 1))
                   \o "\n" \o FenceMark \o "\n"]

\* [^>]*> ending at g, then the lazy body
CodeBlockBody(s, lo, lang, g) ==
  IF g = 0 THEN NoMatch
  ELSE CodeBlockClose(s, lang, g, IndexFrom(lo, "</code></pre>", g + 1))

\* the class attribute's value runs from v to the '"' at q
CodeBlockClass(s, lo, v, q) ==
  IF q = 0 THEN NoMatch
  ELSE CodeBlockBody(s, lo, SubSeq(s, v, q - 1), IndexFrom(lo, ">", q + 1))

\* the optional group is tried first, from the white space that ends before w
CodeBlockLang(s, lo, a, w) ==
  IF w > a /\ StartsWithAt(lo, w, "class=\"language-")
  THEN OrElse(CodeBlockClass(s, lo, w + 16, IndexFrom(lo, "\"", w + 16)),
              CodeBlockBody(s, lo, "", IndexFrom(lo, ">", a)))
  ELSE CodeBlockBody(s, lo, "", IndexFrom(lo, ">", a))

CodeBlockOpen(s, lo, g) ==
  IF g = 0 \/ ~StartsWithAt(lo, g + 1, "<code") THEN NoMatch
  ELSE CodeBlockLang(s, lo, g + 6, SkipChars(lo, g + 6, Space))

CodeBlockMatch(s, lo, j) ==
  IF ~StartsWithAt(lo, j, "<pre") THEN NoMatch
  ELSE CodeBlockOpen(s, lo, IndexFrom(lo, ">", j + 4))

\* --- the link and image patterns ----------------------------------------
\* [^>]*key: where key can start at or after from, with no ">" before it
AttrStarts(lo, from, key) ==
  {h \in from..Len(lo) :
     /\ StartsWithAt(lo, h, key)
     /\ \A k \in from..(h - 1) : Ch(lo, k) # ">"}

LinkTagClose(s, h, q, g, c) ==
  IF c = 0 THEN NoMatch
  ELSE [end |-> c + 3,
        text |-> "[" \o SubSeq(s, g + 1, c - 1) \o "]("
                   \o SubSeq(s, h + 6, q - 1) \o ")"]

LinkTagBody(s, lo, h, q, g) ==
  IF g = 0 THEN NoMatch
  ELSE LinkTagClose(s, h, q, g, IndexFrom(lo, "</a>", g + 1))

LinkTagUrl(s, lo, h, q) ==
  IF q = 0 THEN NoMatch ELSE LinkTagBody(s, lo, h, q, IndexFrom(lo, ">", q + 1))

\* href="([^"]*)"[^>]*>([\s\S]*?)<\/a> with href=" at h
LinkTagAt(s, lo, h) == LinkTagUrl(s, lo, h, IndexFrom(lo, "\"", h + 6))

\* [^>]* is greedy: of the places href=" can start, the last one from which
\* the rest matches is taken
LinkTagLast(s, lo, h) == IF h = 0 THEN NoMatch ELSE LinkTagAt(s, lo, h)

\* /<a\s+[^>]*href="([^"]*)"[^>]*>([\s\S]*?)<\/a>/gi -> '[$2]($1)'
LinkTagMatch(s, lo, j) ==
  IF ~(StartsWithAt(lo, j, "<a") /\ j + 2 <= Len(lo) /\ Ch(lo, j + 2) \in Space)
  THEN NoMatch
  ELSE LinkTagLast(s, lo,
         Last({h \in AttrStarts(lo, j + 3, "href=\"") :
                 LinkTagAt(s, lo, h).end > 0}))

\* the value of the attribute whose name and '="' start at h (5 characters)
ImgValue(s, lo, h) == SubSeq(s, h + 5, IndexFrom(lo, "\"", h + 5) - 1)

\* key="([^"]*)"[^>]*\/?> with the key at h: the index of the ">", 0 if no
\* match
ImgEndAfter(lo, q) == IF q = 0 THEN 0 ELSE IndexFrom(lo, ">", q + 1)

ImgEnd(lo, h) == ImgEndAfter(lo, IndexFrom(lo, "\"", h + 5))

\* where the second key can start after the value of the first, at h
SecondStarts(lo, h, key) ==
  IF IndexFrom(lo, "\"", h + 5) = 0 THEN {}
  ELSE {a \in AttrStarts(lo, IndexFrom(lo, "\"", h + 5) + 1, key) :
          ImgEnd(lo, a) > 0}

\* /<img\s+[^>]*src="([^"]*)"[^>]*\/?>/gi -> '![]($1)', src=" at h
ImgOneAt(s, lo, h) ==
  IF h = 0 THEN NoMatch
  ELSE [end |-> ImgEnd(lo, h), text |-> "![](" \o ImgValue(s, lo, h) \o ")"]

\* the two keys at h and a: '![alt](src)'
ImgTwoAt(s, lo, h, a, srcFirst) ==
  IF h = 0 THEN NoMatch
  ELSE [end |-> ImgEnd(lo, a),
        text |-> "![" \o ImgValue(s, lo, IF srcFirst THEN a ELSE h) \o "]("
                   \o ImgValue(s, lo, IF srcFirst THEN h ELSE a) \o ")"]

ImgFirstKey(srcFirst) == IF srcFirst THEN "src=\"" ELSE "alt=\""

ImgSecondKey(srcFirst) == IF srcFirst THEN "alt=\"" ELSE "src=\""

\* the last place of the first key from which the second is found
ImgTwoFirst(lo, j, srcFirst) ==
  Last({h \in AttrStarts(lo, j + 5, ImgFirstKey(srcFirst)) :
          SecondStarts(lo, h, ImgSecondKey(srcFirst)) # {}})

ImgTwoLast(s, lo, h, srcFirst) ==
  ImgTwoAt(s, lo, h, Last(SecondStarts(lo, h, ImgSecondKey(srcFirst))), srcFirst)

\* the three image patterns: "src-alt", "alt-src" and "src"
ImgMatch(s, lo, j, order) ==
  IF ~(StartsWithAt(lo, j, "<img") /\ j + 4 <= Len(lo) /\ Ch(lo, j + 4) \in Space)
  THEN NoMatch
  ELSE IF order = "src"
  THEN ImgOneAt(s, lo, Last({h \in AttrStarts(lo, j + 5, "src=\"") :
                                ImgEnd(lo, h) > 0}))
  ELSE ImgTwoLast(s, lo, ImgTwoFirst(lo, j, order = "src-alt"), order = "src-alt")

\* --- the patterns without groups -----------------------------------------
\* /<name\s*\/?>/gi matched at j, w the first character after the white space
VoidTagEnd(lo, w) ==
  IF StartsWithAt(lo, w, ">") THEN w
  ELSE IF StartsWithAt(lo, w, "/>") THEN w + 1
  ELSE 0

VoidTagMatch(lo, j, pat) ==
  IF ~StartsWithAt(lo, j, "<" \o pat.name) THEN NoMatch
  ELSE [end |-> VoidTagEnd(lo, SkipChars(lo, j + Len(pat.name) + 1, Space)),
        text |-> pat.text]

\* /\s+/g -> ' '
SpaceMatch(s, j) ==
  IF Ch(s, j) \in Space
  THEN [end |-> SkipChars(s, j, Space) - 1, text |-> " "] ELSE NoMatch

\* /<!--[\s\S]*?-->/g -> ''
CommentClose(c) == IF c = 0 THEN NoMatch ELSE [end |-> c + 2, text |-> ""]

CommentMatch(s, j) ==
  IF ~StartsWithAt(s, j, "<!--") THEN NoMatch
  ELSE CommentClose(IndexFrom(s, "-->", j + 4))

\* /<[^>]+>/g -> ''
AngleClose(j, g) == IF g > j + 1 THEN [end |-> g, text |-> ""] ELSE NoMatch

AngleMatch(s, j) ==
  IF Ch(s, j) # "<" THEN NoMatch ELSE AngleClose(j, IndexFrom(s, ">", j + 1))

\* /\n{3,}/g -> '\n\n'
NewlinesMatch(s, j) ==
  IF StartsWithAt(s, j, "\n\n\n")
  THEN [end |-> SkipChars(s, j, {"\n"}) - 1, text |-> "\n\n"] ELSE NoMatch

\* --- replace ------------------------------------------------------------
RECURSIVE ReplaceAllFrom(_, _, _, _, _)

\* /<li[^>]*>([\s\S]*?)<\/li>/gi
ListItem(kind) == [kind |-> kind, alts |-> << Tag("li") >>]

\* what replaces the n-th match of a paired pattern, given its body
PairedText(pat, group, n) ==
  IF pat.kind = "wrap" THEN pat.pre \o group \o pat.post
  ELSE IF pat.kind = "blockquote" THEN BlockquoteMarkdown(group)
  ELSE IF pat.kind = "ul"
  THEN "\n" \o ReplaceAllFrom(group, toLowerCase(group), 1, ListItem("li-ul"), 1)
         \o "\n"
  ELSE IF pat.kind = "ol"
  THEN "\n" \o ReplaceAllFrom(group, toLowerCase(group), 1, ListItem("li-ol"), 1)
         \o "\n"
  ELSE IF pat.kind = "li-ul" THEN "- " \o group \o "\n"
  \* () => `${index++}. $1\n`: what a function returns is inserted as it is
  ELSE IF pat.kind = "li-ol" THEN NumToString(n) \o ". $1\n"
  ELSE TableMarkdown(TableRows(group))

PairedFound(s, pat, n, m) ==
  IF m.end = 0 THEN NoMatch
  ELSE [end |-> m.end, text |-> PairedText(pat, SubSeq(s, m.from, m.to), n)]

\* the pattern matched at j: where the match ends and what replaces it
PatternMatch(s, lo, j, pat, n) ==
  IF pat.kind = "space" THEN SpaceMatch(s, j)
  ELSE IF pat.kind = "comment" THEN CommentMatch(s, j)
  ELSE IF pat.kind = "codeblock" THEN CodeBlockMatch(s, lo, j)
  ELSE IF pat.kind = "link" THEN LinkTagMatch(s, lo, j)
  ELSE IF pat.kind = "img" THEN ImgMatch(s, lo, j, pat.order)
  ELSE IF pat.kind = "void" THEN VoidTagMatch(lo, j, pat)
  ELSE IF pat.kind = "angle" THEN AngleMatch(s, j)
  ELSE IF pat.kind = "newlines" THEN NewlinesMatch(s, j)
  ELSE PairedFound(s, pat, n, AltMatch(lo, pat.alts, j, 1))

ReplaceMatched(s, lo, i, pat, n, j, m) ==
  SubSeq(s, i, j - 1) \o m.text \o ReplaceAllFrom(s, lo, m.end + 1, pat, n + 1)

ReplaceAllAt(s, lo, i, pat, n, j) ==
  IF j = 0 THEN SubSeq(s, i, Len(s))
  ELSE ReplaceMatched(s, lo, i, pat, n, j, PatternMatch(s, lo, j, pat, n))

\* s.replace(pattern, replacement) for a pattern with the g flag, from i
ReplaceAllFrom(s, lo, i, pat, n) ==
  ReplaceAllAt(s, lo, i, pat, n,
    First({k \in i..Len(s) : PatternMatch(s, lo, k, pat, n).end > 0}))

ReplaceAll(s, pat) == ReplaceAllFrom(s, toLowerCase(s), 1, pat, 1)

\* Wrap keeping the body alone, as for <div> and <span>:
\* C12_RoundTripKeepsHeaderAndBold does not hold of it
WrapBodyOnly(names, pre, post) ==
  [kind |-> "wrap", alts |-> [k \in 1..Len(names) |-> Tag(names[k])],
   pre |-> "", post |-> ""]

\* a pattern /<(names)[^>]*>([\s\S]*?)<\/\1>/gi replaced by pre + body + post
Wrap(names, pre, post) ==
  [kind |-> "wrap", alts |-> [k \in 1..Len(names) |-> Tag(names[k])],
   pre |-> pre, post |-> post]

Callback(kind, name) == [kind |-> kind, alts |-> << Tag(name) >>]

\* the replacements of htmlToMarkdown before unescapeHtml, in source order
HtmlPatterns ==
  << [kind |-> "space"],
     [kind |-> "comment"],
     Wrap(<< "h1" >>, "\n# ", "\n"),
     Wrap(<< "h2" >>, "\n## ", "\n"),
     Wrap(<< "h3" >>, "\n### ", "\n"),
     Wrap(<< "h4" >>, "\n#### ", "\n"),
     Wrap(<< "h5" >>, "\n##### ", "\n"),
     Wrap(<< "h6" >>, "\n###### ", "\n"),
     Wrap(<< "strong", "b" >>, "**", "**"),
     Wrap(<< "em", "i" >>, "*", "*"),
     Wrap(<< "del", "s", "strike" >>, "~~", "~~"),
     [kind |-> "codeblock"],
     Wrap(<< "code" >>, Backtick, Backtick),
     [kind |-> "link"],
     [kind |-> "img", order |-> "src-alt"],
     [kind |-> "img", order |-> "alt-src"],
     [kind |-> "img", order |-> "src"],
     Callback("blockquote", "blockquote"),
     Callback("ul", "ul"),
     Callback("ol", "ol"),
     Callback("table", "table"),
     [kind |-> "void", name |-> "hr", text |-> "\n---\n"],
     [kind |-> "void", name |-> "br", text |-> "  \n"],
     Wrap(<< "p" >>, "\n", "\n"),
     Wrap(<< "div", "span" >>, "", ""),
     [kind |-> "angle"] >>

RECURSIVE ApplyPatterns(_, _)

ApplyRest(next, k) == Now(next, ApplyPatterns(next, k + 1))

ApplyPatterns(s, k) ==
  IF k > Len(HtmlPatterns) THEN s ELSE ApplyRest(ReplaceAll(s, HtmlPatterns[k]), k)

\* result.replace(/\n{3,}/g, '\n\n') and result.trim()
CleanUp(unescaped) ==
  Now(unescaped, trim(ReplaceAll(unescaped, [kind |-> "newlines"])))

\* result = unescapeHtml(result), and the clean up after it
Unescape(replaced) == Now(replaced, CleanUp(unescapeHtml(replaced)))

htmlToMarkdown(html) == Unescape(ApplyPatterns(html, 1))

\* ------------------------------------------------------------------------
\* The converters (mdToHtml.convert, htmlToMd.convert)
\* ------------------------------------------------------------------------

\* A File: its name, its text and whether FileReader can read it.  The
\* alphabet is ASCII, so the size of a text in bytes is its length.
File(name, text, readable) == [name |-> name, text |-> text, readable |-> readable]

FileSize(file) == Len(file.text)

\* new Error(`Failed to read file: ${file.name}`), which readFileAsText
\* rejects with
ReadError(file) == "Failed to read file: " \o file.name

\* replaceExtension with the first dot of the name in place of the last:
\* C6_OneOutputPerInput does not hold of it
replaceFromFirstDot(filename, newExt) ==
  IF ~includes(filename, ".") THEN filename \o "." \o newExt
  ELSE SubSeq(filename, 1, IndexFrom(filename, ".", 1) - 1) \o "." \o newExt

replaceExtension(filename, newExt) ==
  IF lastIndexOf(filename, ".") = 0 THEN filename \o "." \o newExt
  ELSE SubSeq(filename, 1, lastIndexOf(filename, ".") - 1) \o "." \o newExt

\* input.options?.sanitize !== false: an option that is not given is on
ShouldSanitize(options) ==
  ~("sanitize" \in DOMAIN options /\ options.sanitize = FALSE)

\* input.options?.gfm !== false
Gfm(options) == ~("gfm" \in DOMAIN options /\ options.gfm = FALSE)

\* (input.options?.wrapper as string) || 'none'
Wrapper(options) ==
  IF "wrapper" \in DOMAIN options /\ options.wrapper # ""
  THEN options.wrapper ELSE "none"

\* the locals of convert at the start of the try block, i counting from 1
InitLocals ==
  [i |-> 1, outputFiles |-> << >>, totalInputSize |-> 0, totalOutputSize |-> 0,
   warnings |-> << >>]

\* Percent rounding down (Math.floor for Math.round):
\* C14_PercentScaledToEighty does not hold of it
PercentRoundedDown(i, n) == (80 * (i - 1)) \div n

\* Math.round((i / input.files.length) * 80) for the source's i (from 0):
\* the nearest integer, a half rounded up
Percent(i, n) == (160 * (i - 1) + n) \div (2 * n)

\* "totalInputSize += file.size" at the head of an iteration
CountInput(locals, file) ==
  [locals EXCEPT !.totalInputSize = @ + FileSize(file)]

\* the first call of onProgress in an iteration; locals are those after
\* CountInput
Converting(locals, file, n) ==
  [percent |-> Percent(locals.i, n), stage |-> "Converting " \o file.name,
   bytesProcessed |-> locals.totalInputSize]

\* the call of onProgress after the loop
Complete(locals) ==
  [percent |-> 100, stage |-> "Complete",
   bytesProcessed |-> locals.totalInputSize, bytesTotal |-> locals.totalInputSize]

\* "const sanitized = sanitizeHtml(html)" when enabled; when disabled html
\* stays as it is and nothing counts as removed
Sanitize(html, shouldSanitize) ==
  IF shouldSanitize THEN sanitizeHtml(html) ELSE [html |-> html, removedCount |-> 0]

SanitizerWarning(name, sanitized, suffix) ==
  name \o ": Sanitizer removed " \o NumToString(sanitized.removedCount)
    \o " potentially dangerous element(s)" \o suffix

\* Warn pushing its warning whatever the count: C7_OneWarningPerUnsafeFile
\* does not hold of it
WarnAlways(warnings, name, sanitized, suffix) ==
  Append(warnings, SanitizerWarning(name, sanitized, suffix))

\* Warn keeping quiet once a warning was pushed, as a check with state left
\* over from an earlier file would: C30_FilesConvertedIndependently does not
\* hold of it
WarnFirstOnly(warnings, name, sanitized, suffix) ==
  IF sanitized.removedCount > 0 /\ warnings = << >>
  THEN Append(warnings, SanitizerWarning(name, sanitized, suffix))
  ELSE warnings

\* "if (sanitized.removedCount > 0) warnings.push(...)"
Warn(warnings, name, sanitized, suffix) ==
  IF sanitized.removedCount > 0
  THEN Append(warnings, SanitizerWarning(name, sanitized, suffix))
  ELSE warnings

\* file.name.replace(/\.(md|markdown)$/i, '')
StripMarkdownExtension(name) ==
  IF endsWith(toLowerCase(name), ".md") THEN SubSeq(name, 1, Len(name) - 3)
  ELSE IF endsWith(toLowerCase(name), ".markdown")
  THEN SubSeq(name, 1, Len(name) - 9)
  ELSE name

\* the template literal of the full wrapper
FullDocument(title, html) ==
  "<!DOCTYPE html>\n<html lang=\"en\">\n<head>\n"
    \o "  <meta charset=\"UTF-8\">\n"
    \o "  <meta name=\"viewport\" content=\"width=device-width, initial-scale=1.0\">\n"
    \o "  <title>" \o escapeHtml(title) \o "</title>\n"
    \o "</head>\n<body>\n" \o html \o "\n</body>\n</html>"

\* "if (wrapper === 'full') ... else if (wrapper === 'article') ..."
ApplyWrapper(html, wrapper, name) ==
  IF wrapper = "full" THEN FullDocument(StripMarkdownExtension(name), html)
  ELSE IF wrapper = "article" THEN "<article>\n" \o html \o "\n</article>"
  ELSE html

\* content.match(/<body[^>]*>([\s\S]*)<\/body>/i): the opening tag runs to
\* the first ">", the greedy body to the last closing tag
BodyClose(content, g, c) ==
  IF c = 0 THEN NoMatch ELSE [end |-> c + 6, from |-> g + 1, to |-> c - 1]

BodyOpen(content, lo, g) ==
  IF g = 0 THEN NoMatch
  ELSE BodyClose(content, g,
                 Last({c \in (g + 1)..Len(lo) : StartsWithAt(lo, c, "</body>")}))

BodyMatch(content, lo, j) ==
  IF ~StartsWithAt(lo, j, "<body") THEN NoMatch
  ELSE BodyOpen(content, lo, IndexFrom(lo, ">", j + 5))

BodyAt(content, lo, j) ==
  FirstGroupAt(content, IF j = 0 THEN NoMatch ELSE BodyMatch(content, lo, j))

BodyIn(content, lo) ==
  BodyAt(content, lo,
         First({k \in 1..Len(lo) : BodyMatch(content, lo, k).end > 0}))

\* "if (bodyMatch) content = bodyMatch[1]"
ExtractBody(content) ==
  IF BodyIn(content, toLowerCase(content)).found
  THEN BodyIn(content, toLowerCase(content)).group
  ELSE content

\* new Blob([text], { type })
Blob(text, type) == [text |-> text, type |-> type]

\* "totalOutputSize += outputBlob.size; outputFiles.push({...})", and the
\* i++ of the loop
PushOutput(locals, file, newExt, mimeType, data) ==
  [locals EXCEPT
     !.totalOutputSize = @ + Len(data.text),
     !.outputFiles = Append(@, [name |-> replaceExtension(file.name, newExt),
                                mimeType |-> mimeType,
                                data |-> data,
                                sourceFile |-> file]),
     !.i = @ + 1]

\* the end of an iteration of mdToHtml.convert: html is the wrapped document
MdToHtmlPush(locals, file, html) ==
  Now(html, PushOutput(locals, file, "html", "text/html",
                       Blob(html, "text/html;charset=utf-8")))

\* the iteration of mdToHtml.convert after the sanitize step, whose outcome
\* is sanitized
MdToHtmlOutput(locals, file, options, sanitized) ==
  Now(sanitized,
      MdToHtmlPush([locals EXCEPT !.warnings = Warn(@, file.name, sanitized, "")],
                   file,
                   ApplyWrapper(sanitized.html, Wrapper(options), file.name)))

\* the iteration of mdToHtml.convert after "let html = markdownToHtml(...)"
MdToHtmlSanitize(locals, file, options, html) ==
  Now(html, MdToHtmlOutput(locals, file, options,
                           Sanitize(html, ShouldSanitize(options))))

\* the end of an iteration of htmlToMd.convert
HtmlToMdPush(locals, file, markdown) ==
  Now(markdown, PushOutput(locals, file, "md", "text/markdown",
                           Blob(markdown, "text/markdown;charset=utf-8")))

\* the iteration of htmlToMd.convert after the body is extracted
HtmlToMdConvert(locals, file, content) ==
  Now(content, HtmlToMdPush(locals, file, htmlToMarkdown(content)))

\* the iteration of htmlToMd.convert after the sanitize step, whose outcome
\* is sanitized
HtmlToMdOutput(locals, file, options, sanitized) ==
  Now(sanitized,
      HtmlToMdConvert([locals EXCEPT !.warnings =
                         Warn(@, file.name, sanitized, " before conversion")],
                      file, ExtractBody(sanitized.html)))

\* one iteration of the loop of either converter on a file that is read;
\* locals are those after CountInput
ConvertFile(converter, locals, file, options) ==
  IF converter = "markdown-to-html"
  THEN MdToHtmlSanitize(locals, file, options,
                        markdownToHtml(file.text, Gfm(options)))
  ELSE HtmlToMdOutput(locals, file, options,
                      Sanitize(file.text, ShouldSanitize(options)))

\* Caught with the files converted so far in the result:
\* C5_ReadFailureAborts does not hold of it
CaughtWithFiles(locals, message) ==
  [success |-> FALSE, error |-> message, files |-> locals.outputFiles]

\* the catch block: none of the locals reaches the result
Caught(locals, message) == [success |-> FALSE, error |-> message]

\* the stats of a result.  processingTime is read off the clock and is left
\* out; compressionRatio is the quotient of its two fields (0/0 is NaN).
Stats(locals) ==
  [inputSize |-> locals.totalInputSize, outputSize |-> locals.totalOutputSize,
   compressionRatio |-> [dividend |-> locals.totalOutputSize,
                         divisor |-> locals.totalInputSize]]

\* the result of a call that reaches the end of its loop.  A field whose
\* value is undefined is left out of the record.
Success(locals) ==
  IF Len(locals.warnings) > 0
  THEN [success |-> TRUE, files |-> locals.outputFiles,
        warnings |-> locals.warnings, stats |-> Stats(locals)]
  ELSE [success |-> TRUE, files |-> locals.outputFiles, stats |-> Stats(locals)]

\* ------------------------------------------------------------------------
\* The parts of the state at rest.  Each specification below starts
\* one part and leaves the others at rest.
\* ------------------------------------------------------------------------

NoResult == [html |-> "", removedCount |-> 0]

\* no call of sanitizeHtml is under way
SanIdle ==
  /\ sanPc = "idle"
  /\ sanInput = ""
  /\ sanFragments = 0
  /\ sanResult = NoResult
  /\ sanAgain = NoResult

\* no call of markdownToHtml is under way
MdIdle ==
  /\ mdPc = "idle"
  /\ md = InitScan(<< "" >>, TRUE)
  /\ mdResult = ""
  /\ mdBack = ""

NoInput == [converter |-> "", files |-> << >>, options |-> << >>]

NoConversion == [success |-> FALSE, error |-> ""]

\* no call of convert is under way
ConvIdle ==
  /\ convPc = "idle"
  /\ convInput = NoInput
  /\ conv = InitLocals
  /\ convProgress = << >>
  /\ convResult = NoConversion

NoDocument == [kind |-> "none"]

\* no call of htmlToMarkdown is under way
H2mIdle ==
  /\ h2mPc = "idle"
  /\ h2mDoc = NoDocument
  /\ h2mResult = ""

\* no call of isSafeUrl is under way
UrlIdle ==
  /\ urlPc = "idle"
  /\ urlInput = ""
  /\ urlPieces = 0
  /\ urlSafe = FALSE

\* ------------------------------------------------------------------------
\* Specification SanSpec: sanitizeHtml applied to an input, then to its own
\* result.  The input is any concatenation of at most MaxFragments fragments.
\* ------------------------------------------------------------------------

MaxFragments == 3

HtmlFragments ==
  { "<", ">", "t", "<foo>", "<b>", "script>", "<script>", "</script>",
    "<a", "<p", " onclick=y", "/onclick=y",
    " href=\"javascript&#58;x\"", " href=\"http://h\"" }

SanInit ==
  /\ MdIdle
  /\ ConvIdle
  /\ H2mIdle
  /\ UrlIdle
  /\ sanPc = "input"
  /\ sanInput = ""
  /\ sanFragments = 0
  /\ sanResult = NoResult
  /\ sanAgain = NoResult

SanAppend ==
  /\ sanPc = "input"
  /\ sanFragments < MaxFragments
  /\ \E f \in HtmlFragments : sanInput' = sanInput \o f
  /\ sanFragments' = sanFragments + 1
  /\ UNCHANGED << sanPc, sanResult, sanAgain, mdVars, convVars, h2mVars, urlVars >>

SanSanitize ==
  /\ sanPc = "input"
  /\ sanResult' = sanitizeHtml(sanInput)
  /\ sanPc' = "sanitized"
  /\ UNCHANGED << sanInput, sanFragments, sanAgain, mdVars, convVars, h2mVars, urlVars >>

SanSanitizeAgain ==
  /\ sanPc = "sanitized"
  /\ sanAgain' = sanitizeHtml(sanResult.html)
  /\ sanPc' = "resanitized"
  /\ UNCHANGED << sanInput, sanFragments, sanResult, mdVars, convVars, h2mVars, urlVars >>

SanNext == SanAppend \/ SanSanitize \/ SanSanitizeAgain

SanSpec == SanInit /\ [][SanNext]_vars

\* ------------------------------------------------------------------------
\* Specification MdSpec: markdownToHtml on a document of at most MaxLines
\* lines, one action per iteration of the loop over the lines.
\* ------------------------------------------------------------------------

MaxLines == 3

MdLines ==
  { "", "p", "# T", "# a|b", "5. item", "1. a", "1. [x] t", "- [x] t",
    "- [ ] u", "- a", "> q", "a|b", "---|---", "---",
    Backtick \o Backtick \o Backtick }

\* markdown.split('\n') has at least one line
MdInit ==
  /\ SanIdle
  /\ ConvIdle
  /\ H2mIdle
  /\ UrlIdle
  /\ mdPc = "input"
  /\ \E l \in MdLines, gfm \in BOOLEAN : md = InitScan(<< l >>, gfm)
  /\ mdResult = ""
  /\ mdBack = ""

\* one more line of the argument
MdAddLine ==
  /\ mdPc = "input"
  /\ Len(md.lines) < MaxLines
  /\ \E l \in MdLines : md' = [md EXCEPT !.lines = Append(@, l)]
  /\ UNCHANGED << mdPc, mdResult, mdBack, sanVars, convVars, h2mVars, urlVars >>

\* one iteration of the loop over the lines
MdScanLine ==
  /\ mdPc \in {"input", "scan"}
  /\ md.i <= Len(md.lines)
  /\ md' = ScanLine(md)
  /\ mdPc' = "scan"
  /\ UNCHANGED << mdResult, mdBack, sanVars, convVars, h2mVars, urlVars >>

\* the end of the loop: the open blocks are closed and the output joined
MdFinish ==
  /\ mdPc = "scan"
  /\ md.i > Len(md.lines)
  /\ md' = FinishScan(md)
  /\ mdResult' = join(md'.output, "\n")
  /\ mdPc' = "done"
  /\ UNCHANGED << mdBack, sanVars, convVars, h2mVars, urlVars >>

MdNext == MdAddLine \/ MdScanLine \/ MdFinish

MdSpec == MdInit /\ [][MdNext]_vars


\* ------------------------------------------------------------------------
\* Specification ConvSpec: a call of mdToHtml.convert or htmlToMd.convert on
\* at most MaxFiles files, one action per iteration of the loop over them.
\* ------------------------------------------------------------------------

MaxFiles == 3

MarkdownFiles ==
  { File("a.md", "# T", TRUE),
    File("a.b.md", "- [x] t", TRUE),
    File("x.MARKDOWN", "[l](javascript:y)", TRUE),
    File("README", "p", TRUE),
    File("bad.md", "# U", FALSE) }

HtmlFiles ==
  { File("p.html", "<p onclick=y>t</p>", TRUE),
    File("q.htm", "<body><h1>T</h1></body>", TRUE),
    File("s.t.html", "<script>x</script><b/onclick=y>k</b>", TRUE),
    File("page", "<ol><li>a</li></ol>", TRUE),
    File("bad.html", "<p>u</p>", FALSE) }

MarkdownOptions ==
  { << >>,
    [sanitize |-> FALSE],
    [gfm |-> FALSE],
    [wrapper |-> "full"],
    [sanitize |-> TRUE, gfm |-> TRUE, wrapper |-> "article"] }

HtmlOptions == { << >>, [sanitize |-> FALSE], [sanitize |-> TRUE] }

Inputs ==
  { [converter |-> "markdown-to-html", files |-> << >>, options |-> o] :
      o \in MarkdownOptions }
    \cup { [converter |-> "html-to-markdown", files |-> << >>, options |-> o] :
             o \in HtmlOptions }

FilesFor(converter) ==
  IF converter = "markdown-to-html" THEN MarkdownFiles ELSE HtmlFiles

ConvInit ==
  /\ SanIdle
  /\ MdIdle
  /\ H2mIdle
  /\ UrlIdle
  /\ convPc = "input"
  /\ convInput \in Inputs
  /\ conv = InitLocals
  /\ convProgress = << >>
  /\ convResult = NoConversion

\* one more file of the argument
ConvAddFile ==
  /\ convPc = "input"
  /\ Len(convInput.files) < MaxFiles
  /\ \E f \in FilesFor(convInput.converter) :
       convInput' = [convInput EXCEPT !.files = Append(@, f)]
  /\ UNCHANGED << convPc, conv, convProgress, convResult, sanVars, mdVars, h2mVars, urlVars >>

\* one iteration of the loop on a file that FileReader reads
ConvConvertFile ==
  /\ convPc \in {"input", "loop"}
  /\ conv.i <= Len(convInput.files)
  /\ convInput.files[conv.i].readable
  /\ convProgress' =
       Append(convProgress,
              Converting(CountInput(conv, convInput.files[conv.i]),
                         convInput.files[conv.i], Len(convInput.files)))
  /\ conv' = ConvertFile(convInput.converter,
                         CountInput(conv, convInput.files[conv.i]),
                         convInput.files[conv.i], convInput.options)
  /\ convPc' = "loop"
  /\ UNCHANGED << convInput, convResult, sanVars, mdVars, h2mVars, urlVars >>

\* an iteration whose readFileAsText rejects: the catch block returns
ConvReadFails ==
  /\ convPc \in {"input", "loop"}
  /\ conv.i <= Len(convInput.files)
  /\ ~convInput.files[conv.i].readable
  /\ convProgress' =
       Append(convProgress,
              Converting(CountInput(conv, convInput.files[conv.i]),
                         convInput.files[conv.i], Len(convInput.files)))
  /\ conv' = CountInput(conv, convInput.files[conv.i])
  /\ convResult' = Caught(conv', ReadError(convInput.files[conv.i]))
  /\ convPc' = "done"
  /\ UNCHANGED << convInput, sanVars, mdVars, h2mVars, urlVars >>

\* the end of the loop: the last call of onProgress and the result
ConvComplete ==
  /\ convPc \in {"input", "loop"}
  /\ conv.i > Len(convInput.files)
  /\ convProgress' = Append(convProgress, Complete(conv))
  /\ convResult' = Success(conv)
  /\ convPc' = "done"
  /\ UNCHANGED << convInput, conv, sanVars, mdVars, h2mVars, urlVars >>

ConvNext == ConvAddFile \/ ConvConvertFile \/ ConvReadFails \/ ConvComplete

ConvSpec == ConvInit /\ [][ConvNext]_vars

\* ------------------------------------------------------------------------
\* Specification TableSpec: markdownToHtml with gfm on a document made of a
\* header row, an alignment row and at most MaxBodyRows body rows.
\* ------------------------------------------------------------------------

MaxBodyRows == 2

TableHeaders == { "a|b", "|a|b|c|", "a|" }

TableAligns == { "---|---", ":-:|-:", ":-|---|:-:", "-:|" }

TableBodies == { "1|2", "|1|2|3|", "x|" }

\* the sequences of at most MaxBodyRows body rows
BodyRowSeqs == UNION { [1..k -> TableBodies] : k \in 0..MaxBodyRows }

TableDocs ==
  { << h, a >> \o b : h \in TableHeaders, a \in TableAligns, b \in BodyRowSeqs }

TableInit ==
  /\ SanIdle
  /\ ConvIdle
  /\ H2mIdle
  /\ UrlIdle
  /\ mdPc = "input"
  /\ \E doc \in TableDocs : md = InitScan(doc, TRUE)
  /\ mdResult = ""
  /\ mdBack = ""

TableNext == MdScanLine \/ MdFinish

TableSpec == TableInit /\ [][TableNext]_vars

\* ------------------------------------------------------------------------
\* Specification RoundTripSpec: markdownToHtml on a header, a blank line and
\* a paragraph with a bold run, then htmlToMarkdown on the result.
\* ------------------------------------------------------------------------

\* #{1,6}
HeaderLevels == 1..6

HeaderTexts == { "Hi", "a b" }

\* a paragraph: the text before its bold run, the run, the text after it
BoldParagraphs ==
  { [pre |-> "Some ", bold |-> "bold", post |-> " text."],
    [pre |-> "", bold |-> "b c", post |-> ""],
    [pre |-> "x *y* ", bold |-> "z", post |-> " & <w>"] }

RECURSIVE Hashes(_)
Hashes(n) == IF n = 0 THEN "" ELSE "#" \o Hashes(n - 1)

HeaderLine(n, text) == Hashes(n) \o " " \o text

ParagraphLine(p) == p.pre \o "**" \o p.bold \o "**" \o p.post

RoundTripDocs ==
  { << HeaderLine(n, t), "", ParagraphLine(p) >> :
      n \in HeaderLevels, t \in HeaderTexts, p \in BoldParagraphs }

RoundTripInit ==
  /\ SanIdle
  /\ ConvIdle
  /\ H2mIdle
  /\ UrlIdle
  /\ mdPc = "input"
  /\ \E doc \in RoundTripDocs, gfm \in BOOLEAN : md = InitScan(doc, gfm)
  /\ mdResult = ""
  /\ mdBack = ""

\* htmlToMarkdown(markdownToHtml(markdown))
MdConvertBack ==
  /\ mdPc = "done"
  /\ mdBack' = htmlToMarkdown(mdResult)
  /\ mdPc' = "back"
  /\ UNCHANGED << md, mdResult, sanVars, convVars, h2mVars, urlVars >>

RoundTripNext == MdScanLine \/ MdFinish \/ MdConvertBack

RoundTripSpec == RoundTripInit /\ [][RoundTripNext]_vars

\* ------------------------------------------------------------------------
\* Specification H2mSpec: htmlToMarkdown on a table of at most MaxTableRows
\* rows.  The table has a <thead> and a <tbody> ("both"), a <thead> followed
\* by rows outside any section ("thead"), or rows only ("flat"); its first
\* row is the header row.
\* ------------------------------------------------------------------------

MaxTableRows == 3

TableSections == { "both", "thead", "flat" }

HtmlRows == { << "a" >>, << "a", "b" >>, << "1", "2", "3" >> }

RECURSIVE CellsHtml(_, _, _)
CellsHtml(row, tag, c) ==
  IF c > Len(row) THEN ""
  ELSE "<" \o tag \o ">" \o row[c] \o "</" \o tag \o ">"
         \o CellsHtml(row, tag, c + 1)

RowHtml(row, tag) == "<tr>" \o CellsHtml(row, tag, 1) \o "</tr>"

RECURSIVE RowsHtml(_, _)
RowsHtml(rows, r) ==
  IF r > Len(rows) THEN "" ELSE RowHtml(rows[r], "td") \o RowsHtml(rows, r + 1)

\* the argument html of the call
HtmlOf(doc) ==
  IF doc.sections = "both"
  THEN "<table><thead>" \o RowHtml(doc.rows[1], "th") \o "</thead><tbody>"
         \o RowsHtml(doc.rows, 2) \o "</tbody></table>"
  ELSE IF doc.sections = "thead"
  THEN "<table><thead>" \o RowHtml(doc.rows[1], "th") \o "</thead>"
         \o RowsHtml(doc.rows, 2) \o "</table>"
  ELSE "<table>" \o RowHtml(doc.rows[1], "th") \o RowsHtml(doc.rows, 2)
         \o "</table>"

H2mInit ==
  /\ SanIdle
  /\ MdIdle
  /\ ConvIdle
  /\ UrlIdle
  /\ h2mPc = "input"
  /\ \E s \in TableSections, row \in HtmlRows :
       h2mDoc = [kind |-> "table", sections |-> s, rows |-> << row >>]
  /\ h2mResult = ""

\* one more row of the table
H2mAddRow ==
  /\ h2mPc = "input"
  /\ Len(h2mDoc.rows) < MaxTableRows
  /\ \E row \in HtmlRows : h2mDoc' = [h2mDoc EXCEPT !.rows = Append(@, row)]
  /\ UNCHANGED << h2mPc, h2mResult, sanVars, mdVars, convVars, urlVars >>

H2mConvert ==
  /\ h2mPc = "input"
  /\ h2mResult' = htmlToMarkdown(HtmlOf(h2mDoc))
  /\ h2mPc' = "done"
  /\ UNCHANGED << h2mDoc, sanVars, mdVars, convVars, urlVars >>

H2mNext == H2mAddRow \/ H2mConvert

H2mSpec == H2mInit /\ [][H2mNext]_vars

\* ------------------------------------------------------------------------
\* Specification ElementSpec: sanitizeHtml applied to a paired element of a
\* dangerous tag name, with text before and after it.  The text inside the
\* element is "x", the text outside it is "t".
\* ------------------------------------------------------------------------

OpenTag(name) == "<" \o name \o ">"

CloseTag(name) == "</" \o name \o ">"

\* what lies between the opening tag and its matching closing tag
ElementBodies(name) ==
  { "x",
    "",
    "<b>x</b>",
    "x\nx",
    OpenTag(name) \o CloseTag(name) \o "x",
    OpenTag(name) \o "x" \o CloseTag(name),
    "x" \o OpenTag(name) \o "x" \o CloseTag(name) \o "x" }

TextAround == { "", "t", "<p>t</p>" }

ElementInit ==
  /\ MdIdle
  /\ ConvIdle
  /\ H2mIdle
  /\ UrlIdle
  /\ sanPc = "input"
  /\ \E k \in 1..Len(DANGEROUS_TAGS), pre \in TextAround, post \in TextAround :
       \E body \in ElementBodies(DANGEROUS_TAGS[k]) :
         sanInput = pre \o OpenTag(DANGEROUS_TAGS[k]) \o body
                      \o CloseTag(DANGEROUS_TAGS[k]) \o post
  /\ sanFragments = 0
  /\ sanResult = NoResult
  /\ sanAgain = NoResult

ElementNext == SanSanitize \/ SanSanitizeAgain

ElementSpec == ElementInit /\ [][ElementNext]_vars

\* ------------------------------------------------------------------------
\* Specification UrlSpec: isSafeUrl applied to a url made of at most
\* MaxUrlPieces pieces.
\* ------------------------------------------------------------------------

MaxUrlPieces == 3

UrlPieces ==
  { " ", "/", "#", "a", ":", "x:", "http://", "HTTP://", "https://",
    "mailto:", "tel:", "javascript:", "JavaScript:", "data:", "vbscript:",
    "file:" }

UrlInit ==
  /\ SanIdle
  /\ MdIdle
  /\ ConvIdle
  /\ H2mIdle
  /\ urlPc = "input"
  /\ urlInput = ""
  /\ urlPieces = 0
  /\ urlSafe = FALSE

\* one more piece of the argument
UrlAppend ==
  /\ urlPc = "input"
  /\ urlPieces < MaxUrlPieces
  /\ \E piece \in UrlPieces : urlInput' = urlInput \o piece
  /\ urlPieces' = urlPieces + 1
  /\ UNCHANGED << urlPc, urlSafe, sanVars, mdVars, convVars, h2mVars >>

\* the call of isSafeUrl
UrlCheck ==
  /\ urlPc = "input"
  /\ urlSafe' = isSafeUrl(urlInput)
  /\ urlPc' = "done"
  /\ UNCHANGED << urlInput, urlPieces, sanVars, mdVars, convVars, h2mVars >>

UrlNext == UrlAppend \/ UrlCheck

UrlSpec == UrlInit /\ [][UrlNext]_vars

\* ------------------------------------------------------------------------
\* Specification ListSpec: htmlToMarkdown on a <ul> or an <ol> of at most
\* MaxItems items.
\* ------------------------------------------------------------------------

MaxItems == 3

ItemTexts == { "a", "b c", "d" }

RECURSIVE ItemsHtml(_, _)
ItemsHtml(items, k) ==
  IF k > Len(items) THEN ""
  ELSE "<li>" \o items[k] \o "</li>" \o ItemsHtml(items, k + 1)

\* the argument html of the call: the list with its items
ListHtmlOf(doc) ==
  "<" \o doc.tag \o ">" \o ItemsHtml(doc.items, 1) \o "</" \o doc.tag \o ">"

ListInit ==
  /\ SanIdle
  /\ MdIdle
  /\ ConvIdle
  /\ UrlIdle
  /\ h2mPc = "input"
  /\ \E tag \in {"ul", "ol"}, t \in ItemTexts :
       h2mDoc = [kind |-> "list", tag |-> tag, items |-> << t >>]
  /\ h2mResult = ""

\* one more item of the list
ListAddItem ==
  /\ h2mPc = "input"
  /\ Len(h2mDoc.items) < MaxItems
  /\ \E t \in ItemTexts : h2mDoc' = [h2mDoc EXCEPT !.items = Append(@, t)]
  /\ UNCHANGED << h2mPc, h2mResult, sanVars, mdVars, convVars, urlVars >>

ListConvert ==
  /\ h2mPc = "input"
  /\ h2mResult' = htmlToMarkdown(ListHtmlOf(h2mDoc))
  /\ h2mPc' = "done"
  /\ UNCHANGED << h2mDoc, sanVars, mdVars, convVars, urlVars >>

ListNext == ListAddItem \/ ListConvert

ListSpec == ListInit /\ [][ListNext]_vars

\* ------------------------------------------------------------------------
\* Specification CodeSpec: htmlToMarkdown on a <pre><code> element with a
\* language class and at most MaxCodeLines lines of escaped code.
\* ------------------------------------------------------------------------

MaxCodeLines == 3

CodeLangs == { "js", "c" }

CodeLines == { "x = 1", "a &lt;b&gt; c", "p &amp;amp; q", "y" }

\* the argument html of the call: the lines joined by line breaks
CodeHtmlOf(doc) ==
  "<pre><code class=\"language-" \o doc.lang \o "\">"
    \o join(doc.lines, "\n") \o "</code></pre>"

CodeInit ==
  /\ SanIdle
  /\ MdIdle
  /\ ConvIdle
  /\ UrlIdle
  /\ h2mPc = "input"
  /\ \E lang \in CodeLangs, l \in CodeLines :
       h2mDoc = [kind |-> "code", lang |-> lang, lines |-> << l >>]
  /\ h2mResult = ""

\* one more line of code
CodeAddLine ==
  /\ h2mPc = "input"
  /\ Len(h2mDoc.lines) < MaxCodeLines
  /\ \E l \in CodeLines : h2mDoc' = [h2mDoc EXCEPT !.lines = Append(@, l)]
  /\ UNCHANGED << h2mPc, h2mResult, sanVars, mdVars, convVars, urlVars >>

CodeConvert ==
  /\ h2mPc = "input"
  /\ h2mResult' = htmlToMarkdown(CodeHtmlOf(h2mDoc))
  /\ h2mPc' = "done"
  /\ UNCHANGED << h2mDoc, sanVars, mdVars, convVars, urlVars >>

CodeNext == CodeAddLine \/ CodeConvert

CodeSpec == CodeInit /\ [][CodeNext]_vars

\* ------------------------------------------------------------------------
\* Specification InlineSpec: markdownToHtml on one paragraph line that has
\* a code span, with text before and after it.
\* ------------------------------------------------------------------------

CodeSpanBodies ==
  { "x", "a b", "**a**", "__a__", "*a*", "_a_", "~~a~~", "[t](u)",
    "![t](u)", "a < b" }

TextBeforeSpan == { "", "p " }

TextAfterSpan == { "", " *q*", " q" }

InlineLines ==
  { pre \o Backtick \o body \o Backtick \o post :
      pre \in TextBeforeSpan, body \in CodeSpanBodies, post \in TextAfterSpan }

InlineInit ==
  /\ SanIdle
  /\ ConvIdle
  /\ H2mIdle
  /\ UrlIdle
  /\ mdPc = "input"
  /\ \E l \in InlineLines, gfm \in BOOLEAN : md = InitScan(<< l >>, gfm)
  /\ mdResult = ""
  /\ mdBack = ""

InlineNext == MdScanLine \/ MdFinish

InlineSpec == InlineInit /\ [][InlineNext]_vars

\* ------------------------------------------------------------------------
\* Specification EscSpec: markdownToHtml on a document of at most
\* MaxMarkupLines lines in which every "<", ">" and '"' of the source stands
\* next to the letter z, which the parser never generates.
\* ------------------------------------------------------------------------

MaxMarkupLines == 2

MarkupLines ==
  { "<z>", "# <z>", "a \"z\" b", "> <z>", "- <z>", "1. \"z\"", "<z>|\"z\"",
    "---|---", "[t](<z>)", "[t](u \"z\")", "![\"z\"](u)", "    <z>",
    Backtick \o "<z>" \o Backtick,
    Backtick \o Backtick \o Backtick,
    Backtick \o Backtick \o Backtick \o "<z>",
    Backtick \o Backtick \o Backtick \o "\"z\"" }

EscInit ==
  /\ SanIdle
  /\ ConvIdle
  /\ H2mIdle
  /\ UrlIdle
  /\ mdPc = "input"
  /\ \E l \in MarkupLines, gfm \in BOOLEAN : md = InitScan(<< l >>, gfm)
  /\ mdResult = ""
  /\ mdBack = ""

\* one more line of the argument
EscAddLine ==
  /\ mdPc = "input"
  /\ Len(md.lines) < MaxMarkupLines
  /\ \E l \in MarkupLines : md' = [md EXCEPT !.lines = Append(@, l)]
  /\ UNCHANGED << mdPc, mdResult, mdBack, sanVars, convVars, h2mVars, urlVars >>

EscNext == EscAddLine \/ MdScanLine \/ MdFinish

EscSpec == EscInit /\ [][EscNext]_vars

\* ------------------------------------------------------------------------
\* Specification PipeSpec: markdownToHtml on a document of at most
\* MaxPipeLines lines whose link and image targets are safe, then
\* sanitizeHtml on its result, as mdToHtml.convert does with sanitize on.
\* ------------------------------------------------------------------------

MaxPipeLines == 2

PipeLines ==
  { "# T", "p **b** " \o Backtick \o "c" \o Backtick, "~~d~~ _e_", "- a",
    "- [x] t", "1. a", "5. b", "> q", "a|b", ":-:|---", "---|---", "---",
    "[t](http://h)", "![a](/i.png)", "x",
    Backtick \o Backtick \o Backtick \o "js",
    Backtick \o Backtick \o Backtick }

PipeInit ==
  /\ ConvIdle
  /\ H2mIdle
  /\ UrlIdle
  /\ SanIdle
  /\ mdPc = "input"
  /\ \E l \in PipeLines, gfm \in BOOLEAN : md = InitScan(<< l >>, gfm)
  /\ mdResult = ""
  /\ mdBack = ""

\* one more line of the argument
PipeAddLine ==
  /\ mdPc = "input"
  /\ Len(md.lines) < MaxPipeLines
  /\ \E l \in PipeLines : md' = [md EXCEPT !.lines = Append(@, l)]
  /\ UNCHANGED << mdPc, mdResult, mdBack, sanVars, convVars, h2mVars, urlVars >>

\* "const sanitized = sanitizeHtml(html)" on the parser's result
PipeSanitize ==
  /\ mdPc = "done"
  /\ sanPc = "idle"
  /\ sanInput' = mdResult
  /\ sanResult' = sanitizeHtml(mdResult)
  /\ sanPc' = "sanitized"
  /\ UNCHANGED << sanFragments, sanAgain, mdVars, convVars, h2mVars, urlVars >>

PipeNext == PipeAddLine \/ MdScanLine \/ MdFinish \/ PipeSanitize

PipeSpec == PipeInit /\ [][PipeNext]_vars

\* ------------------------------------------------------------------------
\* Reading the sanitizer's output as markup
\* ------------------------------------------------------------------------

\* where a tag starts in h: "<", a letter, and a ">" somewhere after it
TagStarts(h) ==
  {i \in 1..(Len(h) - 1) :
     Ch(h, i) = "<" /\ Ch(h, i + 1) \in Letter /\ IndexFrom(h, ">", i) > 0}

TagEnd(h, i) == IndexFrom(h, ">", i)

\* index j of h lies inside a double-quoted attribute value of the tag at i
InQuotes(h, i, j) ==
  Cardinality({k \in i..(j - 1) : Ch(h, k) = "\""}) % 2 = 1

\* the values v of the attributes name="v" of the tags of h
AttrValues(h, name) ==
  LET pat == name \o "=\""
      lo == toLowerCase(h)
  IN { SubSeq(h, j + Len(pat), IndexFrom(h, "\"", j + Len(pat)) - 1) :
         j \in { k \in 2..Len(h) :
                   /\ StartsWithAt(lo, k, pat)
                   /\ Ch(h, k - 1) \in Space
                   /\ \E i \in TagStarts(h) :
                        /\ i < k
                        /\ ~InQuotes(h, i, k)
                        /\ IndexFrom(h, "\"", k + Len(pat)) \in 1..TagEnd(h, i) } }

UnsafeScheme(v) ==
  \/ startsWith(toLowerCase(v), "javascript:")
  \/ startsWith(toLowerCase(v), "data:")

\* the tags of h that carry an attribute named on<letters> with a value,
\* after whitespace or after a "/" (which a browser reads as whitespace)
EventHandlerTags(h) ==
  LET lo == toLowerCase(h)
  IN { i \in TagStarts(h) :
         \E j \in (i + 2)..TagEnd(h, i) :
           /\ Ch(h, j - 1) \in Space \cup {"/"}
           /\ ~InQuotes(h, i, j)
           /\ StartsWithAt(lo, j, "on")
           /\ LET e == SkipChars(h, j + 2, Letter)
              IN e > j + 2 /\ e < TagEnd(h, i) /\ Ch(h, e) = "=" }

\* ------------------------------------------------------------------------
\* Claims about sanitizeHtml (specification SanSpec)
\* ------------------------------------------------------------------------

\* C1: no href or src attribute of sanitizeHtml(x).html has a value that
\* begins with javascript: or data:
C1_NoScriptUrlSurvives ==
  sanPc = "sanitized" =>
    \A v \in AttrValues(sanResult.html, "href") \cup AttrValues(sanResult.html, "src") :
      ~UnsafeScheme(v)

\* C2: no tag of sanitizeHtml(x).html carries an event-handler attribute
\* (a name matching on[a-z]+), whatever separates it from the tag name
C2_NoEventHandlerSurvives ==
  sanPc = "sanitized" => EventHandlerTags(sanResult.html) = {}

\* C3: sanitizeHtml(x).html contains no "<script", in any letter case
C3_NoScriptTagSurvives ==
  sanPc = "sanitized" => ~includes(toLowerCase(sanResult.html), "<script")

\* C4: sanitizeHtml is idempotent on its html result
C4_SanitizeIdempotent ==
  sanPc = "resanitized" => sanAgain.html = sanResult.html

\* ------------------------------------------------------------------------
\* Claims about convert (specification ConvSpec)
\* ------------------------------------------------------------------------

\* the first file of the input that cannot be read, 0 if all can
FirstUnreadable ==
  First({k \in 1..Len(convInput.files) : ~convInput.files[k].readable})

\* C5: when reading one of the files fails, convert returns
\* {success: false, error} with no files, warnings or stats, however many
\* files of the batch were converted before
C5_ReadFailureAborts ==
  (convPc = "done" /\ FirstUnreadable > 0) =>
    /\ DOMAIN convResult = {"success", "error"}
    /\ convResult.success = FALSE
    /\ convResult.error
         = "Failed to read file: " \o convInput.files[FirstUnreadable].name

\* a read fails after two files of the batch were converted
C5_FailsAfterTwoFiles ==
  /\ convPc = "done"
  /\ FirstUnreadable = 3
  /\ Len(conv.outputFiles) = 2
  /\ convResult.success = FALSE

\* the extension a converter gives its output files
OutputExtension ==
  IF convInput.converter = "markdown-to-html" THEN "html" ELSE "md"

\* a file name without its extension: what stands before its last dot, all
\* of it when it has no dot
Stem(name) ==
  IF \A k \in 1..Len(name) : Ch(name, k) # "." THEN name
  ELSE SubSeq(name, 1, Last({k \in 1..Len(name) : Ch(name, k) = "."}) - 1)

\* what one file alone is converted to under the options of the call
ConvertedAlone(file) ==
  ConvertFile(convInput.converter, InitLocals, file, convInput.options)
    .outputFiles[1].data.text

\* C6: a successful convert returns one output file per input file, in input
\* order, each made from its input file and named by swapping the extension
\* for html (Markdown to HTML) or md (HTML to Markdown)
C6_OneOutputPerInput ==
  (convPc = "done" /\ convResult.success) =>
    /\ Len(convResult.files) = Len(convInput.files)
    /\ \A k \in 1..Len(convInput.files) :
         /\ convResult.files[k].sourceFile = convInput.files[k]
         /\ convResult.files[k].name
              = Stem(convInput.files[k].name) \o "." \o OutputExtension
         /\ convResult.files[k].data.text = ConvertedAlone(convInput.files[k])

\* three files converted, the second with two dots in its name
C6_ThreeFilesInOrder ==
  /\ convPc = "done"
  /\ convResult.success
  /\ Len(convResult.files) = 3
  /\ convInput.files[2].name = "a.b.md"
  /\ convResult.files[2].name = "a.b.html"
  /\ convResult.files[1].name # convResult.files[3].name

RemovedFrom(html) == Now(html, sanitizeHtml(html).removedCount)

\* what the sanitizer removes for one file: from the HTML made of it
\* (Markdown to HTML), from the file itself (HTML to Markdown)
RemovedCount(file) ==
  IF convInput.converter = "markdown-to-html"
  THEN RemovedFrom(markdownToHtml(file.text,
                     ~("gfm" \in DOMAIN convInput.options
                         /\ convInput.options.gfm = FALSE)))
  ELSE RemovedFrom(file.text)

SanitizeOff ==
  "sanitize" \in DOMAIN convInput.options /\ convInput.options.sanitize = FALSE

ExpectedWarning(file, n) ==
  file.name \o ": Sanitizer removed " \o NumToString(n)
    \o " potentially dangerous element(s)"
    \o (IF convInput.converter = "markdown-to-html" THEN ""
        ELSE " before conversion")

WarningsFor(file, n) ==
  IF ~SanitizeOff /\ n > 0 THEN << ExpectedWarning(file, n) >> ELSE << >>

\* the warnings of the files from the k-th, in file order
RECURSIVE ExpectedWarnings(_)
ExpectedWarnings(k) ==
  IF k > Len(convInput.files) THEN << >>
  ELSE WarningsFor(convInput.files[k], RemovedCount(convInput.files[k]))
         \o ExpectedWarnings(k + 1)

ResultWarnings ==
  IF "warnings" \in DOMAIN convResult THEN convResult.warnings ELSE << >>

\* C7: the warnings of a successful convert are, in file order, one warning
\* with the file's removal count for each file the sanitizer removed
\* something from, and none for the others; none at all with sanitize off
C7_OneWarningPerUnsafeFile ==
  (convPc = "done" /\ convResult.success) =>
    /\ ResultWarnings = ExpectedWarnings(1)
    /\ SanitizeOff => "warnings" \notin DOMAIN convResult

\* three files converted and two warnings: one file gave none
C7_TwoWarningsForThreeFiles ==
  /\ convPc = "done"
  /\ convResult.success
  /\ Len(convResult.files) = 3
  /\ Len(ResultWarnings) = 2
  /\ RemovedCount(convInput.files[2]) = 0

\* ------------------------------------------------------------------------
\* Claims about markdownToHtml (specification MdSpec)
\* ------------------------------------------------------------------------

\* the step is an iteration of the loop over the lines
ScanStep == md'.i > md.i

\* the line the next iteration reads, trimmed
Trimmed == trim(md.lines[md.i])

\* the text of a list item line: what follows "-", "*", "+" or the number
\* with its dot, and the white space after it
ItemText ==
  IF UlMatch(Trimmed).start > 0 THEN UlMatch(Trimmed).text
  ELSE OlMatch(Trimmed).text

\* the <li> of a task item with gfm on, of any item with gfm off
TaskItemHtml(item, gfm) ==
  IF gfm
  THEN "<li><input type=\"checkbox\" disabled"
         \o (IF TaskMatch(item).mark \in {"x", "X"} THEN " checked" ELSE "")
         \o " /> " \o parseInline(TaskMatch(item).text, gfm) \o "</li>"
  ELSE "<li>" \o parseInline(item, gfm) \o "</li>"

\* C8: a list item line whose item text is "[ ] text", "[x] text" or
\* "[X] text" renders as an <li> with a disabled checkbox (checked for x and
\* X) and the formatted text when gfm is on, as a plain <li> with the
\* bracket text when gfm is off
C8_TaskItemsRenderCheckbox ==
  [][(/\ ScanStep
      /\ md'.rule \in {"task", "ul", "ol"}
      /\ TaskMatch(ItemText).start > 0)
       => md'.output[Len(md'.output)] = TaskItemHtml(ItemText, md.gfm)]_vars

\* C9: a line outside a code fence whose trimmed text is 1 to 6 "#", white
\* space and text closes the open blocks and appends <hN>text</hN> there,
\* whatever is open and whatever the options; "# T" alone gives <h1>T</h1>
C9_HeaderClosesAndEmits ==
  /\ [][(/\ ScanStep
         /\ ~md.inCodeBlock
         /\ HeaderMatch(Trimmed).level > 0)
          => md'.output
               = Append(closeBlocks(md).output,
                        "<h" \o NumToString(HeaderMatch(Trimmed).level) \o ">"
                          \o parseInline(HeaderMatch(Trimmed).text, md.gfm)
                          \o "</h" \o NumToString(HeaderMatch(Trimmed).level)
                          \o ">")]_vars
  /\ []((mdPc = "done" /\ md.lines = << "# T" >>) => mdResult = "<h1>T</h1>")

\* the tag that opens an ordered list whose first item has number n
ExpectedOlTag(n) ==
  IF n = 1 THEN "<ol>" ELSE "<ol start=\"" \o NumToString(n) \o "\">"

\* the <li> of the ordered item on the line read next
OlItemHtml == "<li>" \o parseInline(OlMatch(Trimmed).text, md.gfm) \o "</li>"

OlIsOpen == md.inList /\ md.listType = "ol"

\* an ordered item joins the open ordered list with its <li> alone, whatever
\* its number; elsewhere the open blocks are closed and the list opens with
\* the tag of the item's number.  A table that opened after the list (its
\* alignment row came later) is closed by the item, and the list with it.
OlItemStep ==
  (ScanStep /\ md'.rule = "ol") =>
    /\ md'.inList /\ md'.listType = "ol"
    /\ md'.output
         = IF OlIsOpen /\ ~md.inTable THEN Append(md.output, OlItemHtml)
           ELSE closeBlocks(md).output
                  \o << ExpectedOlTag(parseInt10(OlMatch(Trimmed).number)),
                        OlItemHtml >>

\* every ordered list opened is closed once, or is the one still open
OlClosedOnce ==
  Cardinality({k \in 1..Len(md.output) : startsWith(md.output[k], "<ol")})
    = Cardinality({k \in 1..Len(md.output) : md.output[k] = "</ol>"})
        + (IF OlIsOpen THEN 1 ELSE 0)

\* C10: an ordered list opens with <ol start="N"> for a first item numbered
\* N other than 1 and with <ol> for 1, has one <li> per item whatever the
\* later numbers, and one </ol>; "5. item" alone gives <ol start="5"> around
\* <li>item</li>
C10_OrderedListStart ==
  /\ [][OlItemStep]_vars
  /\ [](OlClosedOnce /\ (mdPc = "done" => ~md.inList))
  /\ []((mdPc = "done" /\ md.lines = << "5. item" >>)
          => mdResult = "<ol start=\"5\">\n<li>item</li>\n</ol>")

\* a list opened by item 5 and continued by an item numbered 1
C10_ListOfFiveThenOne ==
  /\ mdPc = "done"
  /\ md.lines = << "5. item", "1. a" >>
  /\ mdResult = "<ol start=\"5\">\n<li>item</li>\n<li>a</li>\n</ol>"

\* ------------------------------------------------------------------------
\* Claims about tables (specifications TableSpec, MdSpec)
\* ------------------------------------------------------------------------

\* the style attribute a cell of the alignment row asks for
StyleFor(alignCell) ==
  IF startsWith(alignCell, ":") /\ endsWith(alignCell, ":")
  THEN " style=\"text-align: center\""
  ELSE IF endsWith(alignCell, ":") THEN " style=\"text-align: right\""
  ELSE IF startsWith(alignCell, ":") THEN " style=\"text-align: left\""
  ELSE ""

\* the line of cell c of a row: its style is that of column c of the
\* alignment row, none when the alignment row has no such column
ExpectedCell(tag, cells, alignCells, c) ==
  "<" \o tag
    \o (IF c <= Len(alignCells) THEN StyleFor(alignCells[c]) ELSE "")
    \o ">" \o cells[c] \o "</" \o tag \o ">"

ExpectedRow(tag, cells, alignCells) ==
  << "<tr>" >>
    \o [c \in 1..Len(cells) |-> ExpectedCell(tag, cells, alignCells, c)]
    \o << "</tr>" >>

\* the rows of the lines from the k-th, as body rows
RECURSIVE ExpectedBody(_, _, _)
ExpectedBody(lines, alignCells, k) ==
  IF k > Len(lines) THEN << >>
  ELSE ExpectedRow("td", TableCells(lines[k]), alignCells)
         \o ExpectedBody(lines, alignCells, k + 1)

\* the table of a header row, an alignment row and the body rows after them
ExpectedTable(lines) ==
  << "<table>", "<thead>" >>
    \o ExpectedRow("th", TableCells(lines[1]), TableCells(lines[2]))
    \o << "</thead>" >>
    \o (IF Len(lines) > 2
        THEN << "<tbody>" >> \o ExpectedBody(lines, TableCells(lines[2]), 3)
               \o << "</tbody>" >>
        ELSE << >>)
    \o << "</table>" >>

BackLines == split(mdBack, "\n")

\* the header levels and texts, and the paragraphs, of the document read
HeaderOf(line) ==
  { h \in HeaderLevels \X HeaderTexts : HeaderLine(h[1], h[2]) = line }

ParagraphOf(line) == { p \in BoldParagraphs : ParagraphLine(p) = line }

\* C12: htmlToMarkdown(markdownToHtml(md)) of a header of level n and a
\* paragraph with a **bold** run has the header text on a line that starts
\* with exactly n "#", and the bold run between "**"
C12_RoundTripKeepsHeaderAndBold ==
  mdPc = "back" =>
    /\ \A h \in HeaderOf(md.lines[1]) :
         \E k \in 1..Len(BackLines) :
           BackLines[k] = Hashes(h[1]) \o " " \o h[2]
    /\ \A p \in ParagraphOf(md.lines[3]) :
         includes(mdBack, "**" \o p.bold \o "**")
    /\ HeaderOf(md.lines[1]) # {} /\ ParagraphOf(md.lines[3]) # {}

\* the round trip of "## Hi", a blank line and "Some **bold** text."
C12_LevelTwoAndBold ==
  /\ mdPc = "back"
  /\ md.lines = << "## Hi", "", "Some **bold** text." >>
  /\ mdResult = "<h2>Hi</h2>\n<p>Some <strong>bold</strong> text.</p>"
  /\ mdBack = "## Hi\n \nSome **bold** text."

\* ------------------------------------------------------------------------
\* Claims about htmlToMarkdown (specification H2mSpec)
\* ------------------------------------------------------------------------

\* the pipe-delimited line of a row
PipeLine(cells) == "| " \o join(cells, " | ") \o " |"

\* the number of cells of the widest row
WidestRow(rows) ==
  CHOOSE n \in { Len(rows[r]) : r \in 1..Len(rows) } :
    \A r \in 1..Len(rows) : Len(rows[r]) <= n

\* one line per row, the separator line after the first
ExpectedTableLines(rows) ==
  << PipeLine(rows[1]), PipeLine([c \in 1..WidestRow(rows) |-> "---"]) >>
    \o [r \in 1..(Len(rows) - 1) |-> PipeLine(rows[r + 1])]

\* C13: htmlToMarkdown turns a table into one pipe-delimited line per row of
\* the table, header row first and each row once, with one --- separator
\* line after the first row, as wide as the widest row; with <thead> and
\* <tbody>, with <thead> only, or with rows outside any section
C13_OneLinePerTableRow ==
  (h2mPc = "done" /\ h2mDoc.kind = "table") =>
    h2mResult = join(ExpectedTableLines(h2mDoc.rows), "\n")

\* ------------------------------------------------------------------------
\* Claims about the progress reports of convert (specification ConvSpec)
\* ------------------------------------------------------------------------

\* the share done / total of the range 0..top, rounded to the nearest
\* integer (a half rounded up)
ShareOf(done, total, top) ==
  CHOOSE r \in 0..top :
    /\ 2 * total * r <= 2 * top * done + total
    /\ 2 * top * done + total < 2 * total * (r + 1)

\* the percents reported so far, in order
Percents == [k \in 1..Len(convProgress) |-> convProgress[k].percent]

\* the reports made in the loop: one for each file started
LoopReports ==
  IF convPc = "done" /\ convResult.success
  THEN Len(convProgress) - 1 ELSE Len(convProgress)

NonDecreasing(seq) ==
  \A j \in 1..Len(seq) : \A k \in j..Len(seq) : seq[j] <= seq[k]

\* 100 is reported, once and last, exactly when all the files are done
HundredWhenAllDone ==
  /\ (\E k \in 1..Len(Percents) : Percents[k] = 100)
       <=> (convPc = "done" /\ convResult.success)
  /\ (convPc = "done" /\ convResult.success) =>
       /\ Len(convProgress) = Len(convInput.files) + 1
       /\ Percents[Len(Percents)] = 100

\* C14 as stated: the report made when k - 1 of the n files are done has
\* percent (k - 1) / n of 100; the percents never decrease and reach 100
\* exactly when all the files are done
C14_PercentIsShareOfHundred ==
  /\ \A k \in 1..LoopReports :
       Percents[k] = ShareOf(k - 1, Len(convInput.files), 100)
  /\ NonDecreasing(Percents)
  /\ HundredWhenAllDone

\* C14 amended: one report is made before each file is read (the file that
\* cannot be read included), with percent (files done) / n of 80, rounded,
\* and one after the last file, with percent 100; the percents never decrease and reach 100 exactly when all
\* the files are done
C14_PercentScaledToEighty ==
  /\ LoopReports
       = IF convPc = "done" /\ ~convResult.success THEN conv.i ELSE conv.i - 1
  /\ \A k \in 1..LoopReports :
       Percents[k] = ShareOf(k - 1, Len(convInput.files), 80)
  /\ NonDecreasing(Percents)
  /\ HundredWhenAllDone

\* a batch of three files done: the reports are 0, 27, 53 and 100
C14_ThreeFilesFourReports ==
  /\ convPc = "done"
  /\ convResult.success
  /\ Percents = << 0, 27, 53, 100 >>

\* ------------------------------------------------------------------------
\* Claims about the scan of markdownToHtml as a whole (specification MdSpec)
\* ------------------------------------------------------------------------

\* the line after the one read next, trimmed; "" after the last line
NextTrimmed ==
  IF md.i + 1 <= Len(md.lines) THEN trim(md.lines[md.i + 1]) ELSE ""

\* the line is an alignment row: it has "|" and each cell is dashes with an
\* optional colon at either end
IsAlignmentRow(trimmed) ==
  /\ includes(trimmed, "|")
  /\ \A k \in 1..Len(TableCells(trimmed)) :
       IsSeparatorCell(TableCells(trimmed)[k])

\* the line read next has the shape of no block: it is not blank, a fence,
\* a header (of either form), a rule, a quote, a list item or indented code
PlainShape ==
  /\ Trimmed # ""
  /\ ~startsWith(Trimmed, Backtick \o Backtick \o Backtick)
  /\ HeaderMatch(Trimmed).level = 0
  /\ SetextRule(Trimmed, NextTrimmed) = "none"
  /\ ~IsRule(StripSpaceFrom(Trimmed, 1))
  /\ ~startsWith(Trimmed, ">")
  /\ UlMatch(Trimmed).start = 0
  /\ OlMatch(Trimmed).start = 0
  /\ ~startsWith(md.lines[md.i], "    ")
  /\ ~startsWith(md.lines[md.i], "\t")

\* with gfm on, the line read next has "|" and belongs to no table: no
\* table is open, it is not an alignment row and none follows it
PipeOutsideTable ==
  /\ md.gfm
  /\ includes(Trimmed, "|")
  /\ ~md.inTable
  /\ ~IsAlignmentRow(Trimmed)
  /\ ~IsAlignmentRow(NextTrimmed)

\* the iteration appends the paragraph of the line read
EmitsParagraph ==
  /\ Len(md'.output) > Len(md.output)
  /\ md'.output[Len(md'.output)]
       = "<p>" \o parseInline(Trimmed, md.gfm) \o "</p>"

\* C15: a non-blank line outside a code fence that has the shape of no
\* block is emitted as a <p> paragraph with inline formatting; so is, with
\* gfm on, a line with "|" that no alignment row follows
C15_PlainLineIsParagraph ==
  [][(/\ ScanStep
      /\ ~md.inCodeBlock
      /\ PlainShape
      /\ (~md.gfm \/ ~includes(Trimmed, "|") \/ PipeOutsideTable))
       => EmitsParagraph]_vars

\* the block states that are open in the scan state
OpenBlocks ==
  { b \in {"code", "list", "blockquote", "table"} :
      \/ b = "code" /\ md.inCodeBlock
      \/ b = "list" /\ md.inList
      \/ b = "blockquote" /\ md.inBlockquote
      \/ b = "table" /\ md.inTable }

\* C16: at every point of the scan at most one of the block states code
\* block, list, blockquote and table is open
C16_AtMostOneBlockOpen == Cardinality(OpenBlocks) <= 1

\* the state after the iteration has no block open and nothing collected
NothingHeld ==
  /\ ~md'.inList
  /\ ~md'.inBlockquote
  /\ ~md'.inTable
  /\ md'.blockquoteContent = << >>
  /\ md'.tableRows = << >>
  /\ md'.tableAlignments = << >>

\* C17: after a blank line outside a code fence no block is open and the
\* blockquote lines, table rows and table alignments are empty; the output
\* gains what closing the open blocks adds and nothing else
C17_BlankLineClearsAll ==
  [][(/\ ScanStep
      /\ ~md.inCodeBlock
      /\ Trimmed = "")
       => /\ NothingHeld
          /\ ~md'.inCodeBlock
          /\ md'.output = closeBlocks(md).output]_vars

RECURSIVE ScanUntil(_, _)

ScanUntilRest(next, k) == Now(next, ScanUntil(next, k))

\* the scan state when the loop reaches line k (or passes it, or ends)
ScanUntil(st, k) ==
  IF st.i >= k \/ st.i > Len(st.lines) THEN st
  ELSE ScanUntilRest(ScanLine(st), k)

\* the scan state before line k is read
Before(k) == ScanUntil(InitScan(md.lines, md.gfm), k)

\* the first of the lines whose table rows are held: no row was held before
\* it was read, and rows are held from there on
FirstRowLine ==
  CHOOSE a \in 1..Len(md.lines) :
    /\ Before(a).tableRows = << >>
    /\ \A k \in (a + 1)..md.i : k <= Len(md.lines) + 1 =>
         Before(k).tableRows # << >>

\* the first of the lines held for the open blockquote
FirstQuoteLine ==
  CHOOSE a \in 1..Len(md.lines) :
    /\ Before(a).blockquoteContent = << >>
    /\ \A k \in (a + 1)..md.i : k <= Len(md.lines) + 1 =>
         Before(k).blockquoteContent # << >>

\* the fragments the output gained since line a was held: reading a line
\* that is held appends at most what closing the blocks before it adds
Since(a) == SubSeq(md.output, Len(Before(a + 1).output) + 1, Len(md.output))

\* a fragment that holds the content of no line: the closing tag of a list
NoContent(fragment) == fragment \in {"</ul>", "</ol>"}

\* nothing with content was emitted since the held line a was read
NotOvertaken(a) ==
  \A f \in 1..Len(Since(a)) : NoContent(Since(a)[f])

\* the iteration, or the end of the scan, takes nothing back
AppendOnly ==
  /\ Len(md'.output) >= Len(md.output)
  /\ SubSeq(md'.output, 1, Len(md.output)) = md.output

\* C18: the fragments of the output are in the order of the source lines
\* they come from: the output is append-only, and when the rows of a table
\* or the lines of a blockquote are emitted, nothing from a line after the
\* first of them is in the output yet
C18_OutputInSourceOrder ==
  [][/\ AppendOnly
     /\ (md.inTable /\ ~md'.inTable) => NotOvertaken(FirstRowLine)
     /\ (md.inBlockquote /\ ~md'.inBlockquote) => NotOvertaken(FirstQuoteLine)]_vars

\* line k of the document is a fence line
IsFenceLine(k) ==
  startsWith(trim(md.lines[k]), Backtick \o Backtick \o Backtick)

\* line k opens a code block: it is a fence line with an even number of
\* fence lines before it
IsOpeningFence(k) ==
  /\ IsFenceLine(k)
  /\ Cardinality({ j \in 1..(k - 1) : IsFenceLine(j) }) % 2 = 0

\* the line that ends the block opened on line a: the next fence line, or
\* the line after the last when there is none
FenceEnd(a) ==
  IF \E b \in (a + 1)..Len(md.lines) : IsFenceLine(b)
  THEN CHOOSE b \in (a + 1)..Len(md.lines) :
         IsFenceLine(b) /\ \A j \in (a + 1)..(b - 1) : ~IsFenceLine(j)
  ELSE Len(md.lines) + 1

\* the language named after the opening fence
FenceLang(a) == trim(SubSeq(trim(md.lines[a]), 4, Len(trim(md.lines[a]))))

\* the element of the block opened on line a: the lines up to its end,
\* as they are, joined and escaped
ExpectedCodeBlock(a) ==
  "<pre><code"
    \o (IF FenceLang(a) = "" THEN ""
        ELSE " class=\"language-" \o FenceLang(a) \o "\"")
    \o ">"
    \o escapeHtml(join(SubSeq(md.lines, a + 1, FenceEnd(a) - 1), "\n"))
    \o "</code></pre>"

IsCodeElement(fragment) == startsWith(fragment, "<pre><code")

\* the opening fences of the document, in order
OpeningFences ==
  SelectSeq([k \in 1..Len(md.lines) |-> k], IsOpeningFence)

\* no line of the document is indented code
NoIndentedCode ==
  \A k \in 1..Len(md.lines) :
    ~startsWith(md.lines[k], "    ") /\ ~startsWith(md.lines[k], "\t")

\* the iteration reads a line inside a code block that is not a fence line
InsideFence ==
  /\ ScanStep
  /\ md.inCodeBlock
  /\ ~IsFenceLine(md.i)

\* the iteration stores the line as it is and does nothing else
StoredRaw ==
  md' = [md EXCEPT !.i = @ + 1, !.rule = "code",
                   !.codeBlockContent = Append(@, md.lines[md.i])]

\* C19: a line between an opening fence and the next fence line or the end
\* of the input is stored as it is and nothing else happens; each opening
\* fence gives one <pre><code> element that holds these lines escaped, also
\* when no fence line ends the block
C19_FenceLinesRawInOneBlock ==
  /\ [][InsideFence => StoredRaw]_vars
  /\ []((mdPc = "done" /\ NoIndentedCode) =>
          SelectSeq(md.output, IsCodeElement)
            = [n \in 1..Len(OpeningFences) |->
                 ExpectedCodeBlock(OpeningFences[n])])

\* a fence that nothing ends, with a header line and a quote line after it
C19_UnterminatedFence ==
  /\ mdPc = "done"
  /\ md.lines = << Backtick \o Backtick \o Backtick, "# T", "> q" >>
  /\ mdResult = "<pre><code># T\n&gt; q</code></pre>"

\* the kind of list a fragment opens or closes, "none" for another fragment
ListOpened(fragment) ==
  IF fragment = "<ul>" THEN "ul"
  ELSE IF fragment = "<ol>" \/ startsWith(fragment, "<ol ") THEN "ol"
  ELSE "none"

ListClosed(fragment) ==
  IF fragment = "</ul>" THEN "ul"
  ELSE IF fragment = "</ol>" THEN "ol"
  ELSE "none"

RECURSIVE ListWalk(_, _, _)

\* the list that is open after the fragments from the k-th, open being the
\* list open before them ("none" for no list); "bad" when a list opens
\* inside a list, a closing tag closes no list or one of the other kind,
\* or an <li> lies outside a list
ListWalk(fragments, k, open) ==
  IF k > Len(fragments) THEN open
  ELSE IF ListOpened(fragments[k]) # "none"
  THEN IF open = "none"
       THEN ListWalk(fragments, k + 1, ListOpened(fragments[k])) ELSE "bad"
  ELSE IF ListClosed(fragments[k]) # "none"
  THEN IF open = ListClosed(fragments[k])
       THEN ListWalk(fragments, k + 1, "none") ELSE "bad"
  ELSE IF startsWith(fragments[k], "<li>")
  THEN IF open # "none" THEN ListWalk(fragments, k + 1, open) ELSE "bad"
  ELSE ListWalk(fragments, k + 1, open)

\* the list the scan state says is open
ListOpen == IF md.inList THEN md.listType ELSE "none"

\* C20: the list markup of the output is well nested: a list opens only
\* when none is open, each closing tag closes the open list of its kind,
\* every <li> lies inside a list, the list left open by the fragments so
\* far is the one the scan holds open, and none is open at the end
C20_ListMarkupWellNested ==
  /\ ListWalk(md.output, 1, "none") = ListOpen
  /\ mdPc = "done" => ListWalk(md.output, 1, "none") = "none"

\* an unordered, an ordered and again an unordered list, one item each
C20_ThreeListsInARow ==
  /\ mdPc = "done"
  /\ md.lines = << "- a", "1. a", "- a" >>
  /\ mdResult = "<ul>\n<li>a</li>\n</ul>\n<ol>\n<li>a</li>\n</ol>\n"
                  \o "<ul>\n<li>a</li>\n</ul>"

\* ------------------------------------------------------------------------
\* Claims about the passes of sanitizeHtml (specification SanSpec)
\* ------------------------------------------------------------------------

RECURSIVE OccurrencesFrom(_, _, _, _)

OccurrencesAt(lo, tag, paired, j) ==
  IF j = 0 THEN 0
  ELSE 1 + OccurrencesFrom(lo, tag,
                           DangerousMatchEnd(lo, tag, j, paired) + 1, paired)

\* the occurrences of the pattern of a dangerous tag (paired or bare) that
\* a replace finds in the lower-cased subject lo from index i
OccurrencesFrom(lo, tag, i, paired) ==
  OccurrencesAt(lo, tag, paired,
    First({k \in i..Len(lo) : DangerousMatchEnd(lo, tag, k, paired) > 0}))

Occurrences(s, tag, paired) == OccurrencesFrom(toLowerCase(s), tag, 1, paired)

RECURSIVE DangerousRemovals(_, _)

\* the dangerous-tag occurrences removed from html by the tags from the
\* k-th: the paired ones, then the bare ones of what is left
DangerousRemovals(html, k) ==
  IF k > Len(DANGEROUS_TAGS) THEN 0
  ELSE Occurrences(html, DANGEROUS_TAGS[k], TRUE)
         + Occurrences(RemovePaired(html, DANGEROUS_TAGS[k]),
                       DANGEROUS_TAGS[k], FALSE)
         + DangerousRemovals(
             RemoveBare(RemovePaired(html, DANGEROUS_TAGS[k]),
                        DANGEROUS_TAGS[k]), k + 1)

RECURSIVE AttrCountFrom(_, _)

AttrCountAt(attrs, m) ==
  IF m.end = 0 THEN 0 ELSE 1 + AttrCountFrom(attrs, m.end + 1)

\* the attributes the attribute pattern finds in attrs from index p
AttrCountFrom(attrs, p) == AttrCountAt(attrs, AttrMatch(attrs, p))

\* the attributes of the tag match m that are not kept
DroppedAttrs(m) ==
  IF m.attrs = "" THEN 0
  ELSE AttrCountFrom(m.attrs, 1)
         - Len(FilterAttrs(m.attrs, 1,
                           [cleanAttrs |-> << >>, removedCount |-> 0]).cleanAttrs)

RECURSIVE AttrRemovalsFrom(_, _)

AttrRemovalsAt(s, j, m) ==
  IF j = 0 THEN 0 ELSE DroppedAttrs(m) + AttrRemovalsFrom(s, m.end + 1)

AttrRemovalsFound(s, j) ==
  AttrRemovalsAt(s, j, IF j = 0 THEN NoMatch ELSE AttrTagMatch(s, j))

\* the attributes dropped from the tags of s from index i
AttrRemovalsFrom(s, i) ==
  AttrRemovalsFound(s, First({k \in i..Len(s) : AttrTagMatch(s, k).end > 0}))

\* the html after the dangerous tags are removed, and after the attributes
\* are filtered
AfterPass1(html) == RemoveDangerousTags([html |-> html, removedCount |-> 0], 1).html

AfterPass2(html) == CleanTagsFrom(AfterPass1(html), 1).html

\* the removals sanitizeHtml performs on html: dangerous-tag occurrences,
\* attributes dropped, tags outside the allow-list stripped
Removals(html) ==
  DangerousRemovals(html, 1)
    + AttrRemovalsFrom(AfterPass1(html), 1)
    + StripUnsafeTagsFrom(AfterPass2(html), 1).removedCount

\* C21: removedCount is the number of removals performed: one for each
\* dangerous-tag occurrence removed, one for each attribute dropped, one
\* for each tag stripped; so it is 0 only if nothing was removed
C21_RemovedCountCountsRemovals ==
  sanPc = "sanitized" => sanResult.removedCount = Removals(sanInput)

\* C22: a paired element of a dangerous tag name is removed with everything
\* between its opening tag and its matching closing tag, also when elements
\* of the same name are nested in it: none of the text inside it ("x") is
\* in the output
C22_ElementRemovedWithContent ==
  sanPc = "sanitized" => ~includes(sanResult.html, "x")

RECURSIVE TagNamesFrom(_, _)

TagNamesAt(s, j, m) ==
  IF j = 0 THEN {}
  ELSE {toLowerCase(m.tagName)} \cup TagNamesFrom(s, m.end + 1)

TagNamesFound(s, j) ==
  TagNamesAt(s, j, IF j = 0 THEN NoMatch ELSE AnyTagMatch(s, j))

\* the names of the tags of s from index i, opening and closing, read from
\* left to right: a tag is "<" or "</", a name, and what follows to ">"
TagNamesFrom(s, i) ==
  TagNamesFound(s, First({k \in i..Len(s) : AnyTagMatch(s, k).end > 0}))

RECURSIVE TextFrom(_, _)

TextAt(s, i, j) ==
  IF j = 0 THEN SubSeq(s, i, Len(s))
  ELSE SubSeq(s, i, j - 1) \o TextFrom(s, AnyTagMatch(s, j).end + 1)

\* s from index i without its tags
TextFrom(s, i) ==
  TextAt(s, i, First({k \in i..Len(s) : AnyTagMatch(s, k).end > 0}))

\* s has a tag with a dangerous name
HasDangerousTag(s) ==
  \E k \in 1..Len(DANGEROUS_TAGS) :
    includes(toLowerCase(s), "<" \o DANGEROUS_TAGS[k])

\* C23: every tag of sanitizeHtml(x).html, opening or closing, has a name of
\* the tag allow-list; a tag of another name is removed as markup only, so
\* that without dangerous tags the text outside the tags stays as it was
C23_OnlyAllowedTagsRemain ==
  sanPc = "sanitized" =>
    /\ TagNamesFrom(sanResult.html, 1) \subseteq SAFE_TAGS
    /\ ~HasDangerousTag(sanInput) =>
         TextFrom(sanResult.html, 1) = TextFrom(sanInput, 1)

\* ------------------------------------------------------------------------
\* Claims about isSafeUrl (specification UrlSpec)
\* ------------------------------------------------------------------------

\* the url as isSafeUrl looks at it: trimmed and in lower case
Lowered == toLowerCase(trim(urlInput))

AcceptedPrefixes == { "/", "#", "http://", "https://", "mailto:", "tel:" }

RejectedPrefixes == { "javascript:", "data:", "vbscript:", "file:" }

HasPrefixIn(s, prefixes) == \E p \in prefixes : startsWith(s, p)

\* C24: isSafeUrl is true exactly when the url, trimmed and lower-cased, is
\* empty, starts with "/", "#", "http://", "https://", "mailto:" or "tel:",
\* or has no ":"; it is false for a url starting with "javascript:",
\* "data:", "vbscript:" or "file:" and for every other url with a ":"
C24_SafeUrlByPrefixAndColon ==
  urlPc = "done" =>
    /\ urlSafe <=> \/ Lowered = ""
                   \/ HasPrefixIn(Lowered, AcceptedPrefixes)
                   \/ ~includes(Lowered, ":")
    /\ HasPrefixIn(Lowered, RejectedPrefixes) => ~urlSafe

\* a url in upper case with white space before it is accepted, one with a
\* script scheme written in mixed case is rejected
C24_MixedCaseChecked ==
  /\ urlPc = "done"
  /\ \/ urlInput = " HTTP://a" /\ urlSafe
     \/ urlInput = " JavaScript:a" /\ ~urlSafe

\* ------------------------------------------------------------------------
\* Claims about lists and code blocks in htmlToMarkdown
\* ------------------------------------------------------------------------

\* the line of the k-th item of a list: "- " or the number and ". ", then
\* the content of the item
ItemLine(tag, items, k) ==
  (IF tag = "ol" THEN NumToString(k) \o ". " ELSE "- ") \o items[k]

ItemLines(tag, items) == [k \in 1..Len(items) |-> ItemLine(tag, items, k)]

\* C25: an <ol> with items t1..tk becomes the lines "1. t1" .. "k. tk", a
\* <ul> with the same items the lines "- t1" .. "- tk"
C25_ListItemsBecomeLines ==
  (h2mPc = "done" /\ h2mDoc.kind = "list") =>
    h2mResult = join(ItemLines(h2mDoc.tag, h2mDoc.items), "\n")

\* the fenced block of the language and the escaped lines of code: the
\* fence with its info string, the lines unescaped, the closing fence
ExpectedFence(lang, lines) ==
  Backtick \o Backtick \o Backtick \o lang \o "\n"
    \o join([k \in 1..Len(lines) |-> unescapeHtml(lines[k])], "\n")
    \o "\n" \o Backtick \o Backtick \o Backtick

\* C26: <pre><code class="language-L">C</code></pre> becomes a fenced block
\* with info string L whose body is C with its entities unescaped and its
\* line breaks kept; no other step changes the body
C26_CodeBlockBecomesFence ==
  (h2mPc = "done" /\ h2mDoc.kind = "code") =>
    h2mResult = ExpectedFence(h2mDoc.lang, h2mDoc.lines)

\* ------------------------------------------------------------------------
\* Claims about the inline formatter (specification InlineSpec)
\* ------------------------------------------------------------------------

\* the text between the first two grave accents of the line
SpanBody(line) ==
  SubSeq(line, IndexFrom(line, Backtick, 1) + 1,
         IndexFrom(line, Backtick, IndexFrom(line, Backtick, 1) + 1) - 1)

\* C27: the text of a code span is protected from the later inline rules:
\* the output has <code>text</code> with the text escaped and otherwise as
\* it was written
C27_CodeSpanProtected ==
  mdPc = "done" =>
    includes(mdResult,
             "<code>" \o escapeHtml(SpanBody(md.lines[1])) \o "</code>")

\* ------------------------------------------------------------------------
\* Claims about escaping in markdownToHtml (specification EscSpec)
\* ------------------------------------------------------------------------

\* a "<", ">" or '"' of the source is in s as it was written
HasSourceMarkup(s) ==
  \/ includes(s, "<z")
  \/ includes(s, "z>")
  \/ includes(s, "\"z")
  \/ includes(s, "z\"")

\* C28: no "<", ">" or '"' of the source is copied to the output unescaped,
\* in paragraphs, headers, list items, quotes, cells, code, link targets,
\* titles and the language of a fence
C28_SourceMarkupEscaped ==
  mdPc = "done" => ~HasSourceMarkup(mdResult)

\* ------------------------------------------------------------------------
\* Claims about the parser and the sanitizer together (specification
\* PipeSpec)
\* ------------------------------------------------------------------------

\* C29: for a document whose link and image targets are safe, the sanitizer
\* returns the parser's html unchanged, with removedCount 0
C29_SanitizerKeepsParserOutput ==
  sanPc = "sanitized" =>
    /\ sanResult.html = mdResult
    /\ sanResult.removedCount = 0


\* ------------------------------------------------------------------------
\* C30 (ConvSpec): the files of a batch are converted independently
\* ------------------------------------------------------------------------

\* the locals after a call of convert whose only file is file, with the
\* converter and the options of the batch
Alone(file) ==
  ConvertFile(convInput.converter, CountInput(InitLocals, file), file,
              convInput.options)

\* the locals of the calls on the files k..n of the batch, each alone
RECURSIVE EachAlone(_, _)
EachAlone(k, n) ==
  IF k > n THEN << >>
  ELSE << Alone(convInput.files[k]) >> \o EachAlone(k + 1, n)

\* the output file each of the calls pushed
OutputsOf(calls) == [k \in DOMAIN calls |-> calls[k].outputFiles[1]]

\* the warnings of the calls from the k-th on, in order
RECURSIVE WarningsOf(_, _)
WarningsOf(calls, k) ==
  IF k > Len(calls) THEN << >>
  ELSE calls[k].warnings \o WarningsOf(calls, k + 1)

SameAsAlone(calls) ==
  /\ convResult.files = OutputsOf(calls)
  /\ ResultWarnings = WarningsOf(calls, 1)

====
